---- MODULE Spec2Model ----
(***************************************************************************)
(* Verification model of the earthquake early-warning simulator:           *)
(*   - EEWTracker            (eew_tracker.py)                              *)
(*   - MultiSourceManager    (multisource.py)                              *)
(*   - Station / StationManager (station_manager.py)                       *)
(*   - the single-mode tick of EarthquakeSimulator.run (main.py)           *)
(*                                                                         *)
(* Real numbers are fixed-point integers:                                  *)
(*   latitude / longitude        0.01 degree                               *)
(*   depth, distances            0.1 km                                    *)
(*   magnitude, intensity        0.01                                      *)
(*   time                        0.1 s                                     *)
(* A product with a fraction is truncated toward zero on that grid.        *)
(***************************************************************************)
EXTENDS Integers, Sequences, FiniteSets, TLC

VARIABLES
    tracker,   \* the EEWTracker object (a record), or NoTracker
    call,      \* the last tracker call: operation, argument, returned value
    mgr,       \* the MultiSourceManager object
    mcall,     \* the last manager call
    eq,        \* the single-mode Earthquake (PointSource), or NoQuake
    stations,  \* StationManager.stations: sequence of Station records
    drv,       \* the driver fields of EarthquakeSimulator used by a tick
    scall      \* the last station/driver step

vars == <<tracker, call, mgr, mcall, eq, stations, drv, scall>>

Abs(x) == IF x < 0 THEN -x ELSE x
Max2(a, b) == IF a >= b THEN a ELSE b
Min2(a, b) == IF a <= b THEN a ELSE b

\* a * num / den on the fixed-point grid, truncated toward zero
MulDiv(a, num, den) ==
    IF a >= 0 THEN (a * num) \div den ELSE -(((-a) * num) \div den)

(***************************************************************************)
(* Bounds of the model                                                     *)
(***************************************************************************)
MaxStations == 9       \* station counts fed to the tracker: 0..MaxStations ...
MaxSources == 3        \* longest source list handed to set_sources
MaxTime == 300         \* the scenario clock is stopped at 30 s
MaxQuakeTime == 60     \* the single-mode source clock is stopped at 6 s
MaxBackTime == 150     \* the clock of a manager ticked backwards stays within 15 s
MaxScenarios == 1      \* scenarios started (ENTER) in one run

(***************************************************************************)
(* EEWTracker                                                              *)
(***************************************************************************)
NoTracker == [enabled |-> FALSE, present |-> FALSE]

\* truth used by test_eew_tracker: (35.7, 139.7, 30 km, M7.0)
TrueLat == 3570
TrueLon == 13970
TrueDepth == 300
TrueMag == 700

\* random.uniform(-0.8, 0.8) etc. of the constructor: sampled draws, the
\* extremes included
InitLatErrors == {-80, 4}
InitLonErrors == {4, 60}
InitDepthErrors == {-300, 40}
InitMagErrors == {-80, 9}

\* ... and the larger counts of test_eew_tracker's station_counts list
TestCounts == {13, 20, 30, 50}
StationCounts == (0..MaxStations) \cup TestCounts

convergence_threshold == 5          \* 0.05 degree
DepthConvergence == 50              \* 5 km
MagConvergence == 10                \* 0.1
overthrow_mag_threshold == 100      \* 1.0
overthrow_depth_threshold == 300    \* 30 km
MinStationsForRevision == 3
StationIncreaseForRevision == 5

\* (mutant of ClampMag: the upper limit 9.5 is missing)
ClampMag_no_upper(m) == Max2(100, m)

ClampDepth(d) == Max2(0, d)
ClampMag(m) == Max2(100, Min2(950, m))

\* (mutant of EEWTracker: the drawn errors are used when disabled too)
EEWTracker_errors_when_disabled(tlat, tlon, tdepth, tmag, enabled, elat, elon, edepth, emag) ==
    [ present |-> TRUE,
      enabled |-> enabled,
      true_lat |-> tlat, true_lon |-> tlon,
      true_depth |-> tdepth, true_mag |-> tmag,
      current_lat |-> tlat + elat,
      current_lon |-> tlon + elon,
      current_depth |-> Max2(0, tdepth + edepth),
      current_mag |-> Max2(100, Min2(950, tmag + emag)),
      revision_count |-> 0,
      last_detected_station_count |-> 0,
      current_lat_error |-> elat,
      current_lon_error |-> elon,
      current_depth_error |-> edepth,
      current_mag_error |-> emag,
      needs_correction_announcement |-> FALSE ]

\* EEWTracker.__init__ with the drawn errors made explicit
EEWTracker(tlat, tlon, tdepth, tmag, enabled, elat, elon, edepth, emag) ==
    [ present |-> TRUE,
      enabled |-> enabled,
      true_lat |-> tlat, true_lon |-> tlon,
      true_depth |-> tdepth, true_mag |-> tmag,
      current_lat |-> IF enabled THEN tlat + elat ELSE tlat,
      current_lon |-> IF enabled THEN tlon + elon ELSE tlon,
      current_depth |-> IF enabled THEN ClampDepth(tdepth + edepth) ELSE tdepth,
      current_mag |-> IF enabled THEN ClampMag(tmag + emag) ELSE tmag,
      revision_count |-> 0,
      last_detected_station_count |-> 0,
      current_lat_error |-> IF enabled THEN elat ELSE 0,
      current_lon_error |-> IF enabled THEN elon ELSE 0,
      current_depth_error |-> IF enabled THEN edepth ELSE 0,
      current_mag_error |-> IF enabled THEN emag ELSE 0,
      needs_correction_announcement |-> FALSE ]

\* (mutant of is_converged: magnitude threshold 0.01 instead of 0.1)
is_converged_mag_strict(t) ==
    IF ~t.enabled THEN TRUE
    ELSE /\ Abs(t.current_lat_error) < convergence_threshold
         /\ Abs(t.current_lon_error) < convergence_threshold
         /\ Abs(t.current_depth_error) < DepthConvergence
         /\ Abs(t.current_mag_error) < 1

is_converged(t) ==
    IF ~t.enabled THEN TRUE
    ELSE /\ Abs(t.current_lat_error) < convergence_threshold
         /\ Abs(t.current_lon_error) < convergence_threshold
         /\ Abs(t.current_depth_error) < DepthConvergence
         /\ Abs(t.current_mag_error) < MagConvergence

\* (mutants of should_correct: revising from 2 stations on; requiring an
\* increase of more than 5)
should_correct_from_two(t, n) ==
    /\ n >= MinStationsForRevision - 1
    /\ \/ t.revision_count = 0
       \/ n - t.last_detected_station_count >= StationIncreaseForRevision

should_correct_strict_increase(t, n) ==
    /\ n >= MinStationsForRevision
    /\ \/ t.revision_count = 0
       \/ n - t.last_detected_station_count > StationIncreaseForRevision

\* (mutant of should_correct: any growth of the count revises)
should_correct_any_increase(t, n) ==
    /\ n >= MinStationsForRevision
    /\ \/ t.revision_count = 0
       \/ n - t.last_detected_station_count >= 1

\* lines 112-128: the decision to revise, once enabled / converged are passed
should_correct(t, n) ==
    /\ n >= MinStationsForRevision
    /\ \/ t.revision_count = 0
       \/ n - t.last_detected_station_count >= StationIncreaseForRevision

\* (mutant of is_overthrow: the depth test is missing)
is_overthrow_mag_only(t) ==
    Abs(t.current_mag_error) > overthrow_mag_threshold

\* variant: the thresholds themselves already overthrow
is_overthrow_inclusive(t) ==
    \/ Abs(t.current_mag_error) >= overthrow_mag_threshold
    \/ Abs(t.current_depth_error) >= overthrow_depth_threshold

\* line 138
is_overthrow(t) ==
    \/ Abs(t.current_mag_error) > overthrow_mag_threshold
    \/ Abs(t.current_depth_error) > overthrow_depth_threshold

\* lines 140-143: the re-drawn errors (sampled draws, the extremes included)
OverthrowLatDraws == {-50, 50}
OverthrowLonDraws == {-50, 3}
OverthrowDepthDraws == {-200, 200}
OverthrowMagDraws == {-50, 8, 50}

\* (mutant of decay_rates: the middle band starts at 5 stations)
decay_rates_early_band(n) ==
    IF n >= 20 THEN {40, 60}
    ELSE IF n >= 5 THEN {30, 50}
    ELSE {20, 40}

\* lines 149-154: the interval decay_rate is drawn from, in percent; the
\* model draws its two end points
decay_rates(n) ==
    IF n >= 20 THEN {40, 60}
    ELSE IF n >= 10 THEN {30, 50}
    ELSE {20, 40}

\* lines 156-159
decay(e, d) == MulDiv(e, 100 - d, 100)

\* (mutant of apply_errors: the revision is not counted)
apply_errors_not_counted(t, elat, elon, edepth, emag, n) ==
    [ t EXCEPT
        !.last_detected_station_count = n,
        !.current_lat_error = elat,
        !.current_lon_error = elon,
        !.current_depth_error = edepth,
        !.current_mag_error = emag,
        !.current_lat = t.true_lat + elat,
        !.current_lon = t.true_lon + elon,
        !.current_depth = Max2(0, t.true_depth + edepth),
        !.current_mag = Max2(100, Min2(950, t.true_mag + emag)),
        !.needs_correction_announcement = TRUE ]

\* lines 161-168: apply the errors to the published values, raise the flag
apply_errors(t, elat, elon, edepth, emag, n) ==
    [ t EXCEPT
        !.last_detected_station_count = n,
        !.revision_count = @ + 1,
        !.current_lat_error = elat,
        !.current_lon_error = elon,
        !.current_depth_error = edepth,
        !.current_mag_error = emag,
        !.current_lat = t.true_lat + elat,
        !.current_lon = t.true_lon + elon,
        !.current_depth = ClampDepth(t.true_depth + edepth),
        !.current_mag = ClampMag(t.true_mag + emag),
        !.needs_correction_announcement = TRUE ]

\* the trackers a revising update(n, _) can leave, one per random draw
revised(t, n) ==
    IF is_overthrow(t)
    THEN { [t |-> apply_errors(t, a, b, c, d, n), overthrown |-> TRUE] :
             <<a, b, c, d>> \in OverthrowLatDraws \X OverthrowLonDraws
                                \X OverthrowDepthDraws \X OverthrowMagDraws }
    ELSE { [t |-> apply_errors(t, decay(t.current_lat_error, r),
                                  decay(t.current_lon_error, r),
                                  decay(t.current_depth_error, r),
                                  decay(t.current_mag_error, r), n),
            overthrown |-> FALSE] : r \in decay_rates(n) }

\* variant: the station count is recorded before the test of should_correct
tracker_update_counting(t, n) ==
    IF ~t.enabled THEN {[t |-> t, result |-> FALSE, overthrown |-> FALSE]}
    ELSE IF is_converged(t) THEN {[t |-> t, result |-> FALSE, overthrown |-> FALSE]}
    ELSE IF ~should_correct(t, n)
    THEN {[t |-> [t EXCEPT !.last_detected_station_count = n],
           result |-> FALSE, overthrown |-> FALSE]}
    ELSE { [t |-> o.t, result |-> TRUE, overthrown |-> o.overthrown] : o \in revised(t, n) }

\* EEWTracker.update(detected_station_count, elapsed_time): the set of
\* outcomes [t: tracker after, result: returned value, overthrown]
tracker_update(t, n) ==
    IF ~t.enabled THEN {[t |-> t, result |-> FALSE, overthrown |-> FALSE]}
    ELSE IF is_converged(t) THEN {[t |-> t, result |-> FALSE, overthrown |-> FALSE]}
    ELSE IF ~should_correct(t, n) THEN {[t |-> t, result |-> FALSE, overthrown |-> FALSE]}
    ELSE { [t |-> o.t, result |-> TRUE, overthrown |-> o.overthrown] : o \in revised(t, n) }

\* (mutant of consume_correction_flag: the flag is left raised)
consume_correction_flag_sticky(t) ==
    [t |-> t, result |-> t.needs_correction_announcement]

\* EEWTracker.consume_correction_flag
consume_correction_flag(t) ==
    IF t.needs_correction_announcement
    THEN [t |-> [t EXCEPT !.needs_correction_announcement = FALSE], result |-> TRUE]
    ELSE [t |-> t, result |-> FALSE]

NoCall == [op |-> "none", n |-> 0, result |-> FALSE, overthrown |-> FALSE]

(***************************************************************************)
(* Projection and PointSource (projection.py, earthquake.py)               *)
(***************************************************************************)
SCRATCH_REF_LON == 13800
SCRATCH_REF_LAT == 3700
XUnitsPerDeg == 892       \* 89.2 km per degree of longitude, in 0.1 km
YUnitsPerDeg == 1110      \* Mercator-y scale linearised about 36 N, in 0.1 km

\* latlon_to_xy_km: <<x, y>> in 0.1 km
latlon_to_xy_km(lat, lon) ==
    << MulDiv(lon - SCRATCH_REF_LON, XUnitsPerDeg, 100),
       MulDiv(lat - SCRATCH_REF_LAT, YUnitsPerDeg, 100) >>

RECURSIVE SqrtSearch(_, _, _)
SqrtSearch(n, lo, hi) ==
    IF lo >= hi THEN lo
    ELSE LET mid == (lo + hi + 1) \div 2 IN
         IF mid * mid <= n THEN SqrtSearch(n, mid, hi)
         ELSE SqrtSearch(n, lo, mid - 1)

\* floor of the square root
ISqrt(n) == SqrtSearch(n, 0, 46340)

\* math.hypot on the grid
hypot(a, b) == ISqrt(a * a + b * b)

\* Earthquake.update(dt): the source's own clock advances by dt
EarthquakeUpdate(time, dt) == time + dt

(***************************************************************************)
(* MultiSourceManager                                                      *)
(***************************************************************************)
None == <<>>
Some(x) == <<x>>
Val(o) == o[1]

NoSource == 0     \* start_source is None

\* RuptureSource(lat, lon, depth, magnitude): dataclass defaults and
\* __post_init__; id stands for the object's identity
RuptureSource(id, lat, lon, depth, magnitude) ==
    [ id |-> id, lat |-> lat, lon |-> lon, depth |-> depth,
      magnitude |-> magnitude,
      activate_at |-> Some(0),
      distance_on_fault |-> 0,
      eq_time |-> 0,
      active |-> FALSE ]

MinRuptureVelocity == 1     \* max(0.1, rupture_velocity), in 0.1 km/s

\* MultiSourceManager.__init__
MultiSourceManager(polyline, rupture_velocity) ==
    [ present |-> TRUE,
      polyline |-> polyline,
      sources |-> <<>>,
      rupture_velocity |-> Max2(MinRuptureVelocity, rupture_velocity),
      time |-> 0,
      direction |-> "forward",
      start_source |-> NoSource ]

\* set_sources: the list is adopted, the clock and every source are reset
set_sources(m, srcs) ==
    [ m EXCEPT
        !.sources = [i \in 1..Len(srcs) |->
                        [srcs[i] EXCEPT !.active = FALSE, !.eq_time = 0]],
        !.time = 0 ]

set_start_source(m, id) == [m EXCEPT !.start_source = id]

Directions == {"forward", "backward", "both"}

set_direction(m, d) ==
    IF d \in Directions THEN [m EXCEPT !.direction = d] ELSE m

\* _polyline_km: km-plane vertices and cumulative arc length
km_points(polyline) ==
    [i \in 1..Len(polyline) |-> latlon_to_xy_km(polyline[i][1], polyline[i][2])]

RECURSIVE cumulative(_, _)
cumulative(kp, i) ==
    IF i <= 1 THEN 0
    ELSE cumulative(kp, i - 1)
           + hypot(kp[i][1] - kp[i - 1][1], kp[i][2] - kp[i - 1][2])

\* one pass of the loop of _project_distance_on_fault over segments i..last;
\* best = [found, d2, dist]
RECURSIVE project_from(_, _, _, _, _)
project_from(kp, px, py, i, best) ==
    IF i > Len(kp) - 1 THEN best.dist
    ELSE LET x0 == kp[i][1]
             y0 == kp[i][2]
             vx == kp[i + 1][1] - x0
             vy == kp[i + 1][2] - y0
             seg_len2 == vx * vx + vy * vy
             dot == (px - x0) * vx + (py - y0) * vy
             t_clamped == Max2(0, Min2(seg_len2, dot))   \* t * seg_len2
             proj_x == x0 + MulDiv(vx, t_clamped, seg_len2)
             proj_y == y0 + MulDiv(vy, t_clamped, seg_len2)
             d2 == (proj_x - px) * (proj_x - px) + (proj_y - py) * (proj_y - py)
             along == hypot(proj_x - x0, proj_y - y0)
         IN IF seg_len2 <= 0 THEN project_from(kp, px, py, i + 1, best)
            ELSE IF ~best.found \/ d2 < best.d2
                 THEN project_from(kp, px, py, i + 1,
                        [found |-> TRUE, d2 |-> d2,
                         dist |-> cumulative(kp, i) + along])
                 ELSE project_from(kp, px, py, i + 1, best)

project_distance_on_fault(m, lat, lon) ==
    IF Len(m.polyline) < 2 THEN 0
    ELSE LET p == latlon_to_xy_km(lat, lon) IN
         project_from(km_points(m.polyline), p[1], p[2], 1,
                      [found |-> FALSE, d2 |-> 0, dist |-> 0])

\* sorted(..., key = distance_on_fault): stable insertion
RECURSIVE insert_sorted(_, _)
insert_sorted(sorted, s) ==
    IF sorted = <<>> THEN <<s>>
    ELSE IF sorted[Len(sorted)].distance_on_fault <= s.distance_on_fault
         THEN Append(sorted, s)
         ELSE Append(insert_sorted(SubSeq(sorted, 1, Len(sorted) - 1), s),
                     sorted[Len(sorted)])

RECURSIVE sorted_by_distance(_, _)
sorted_by_distance(srcs, n) ==
    IF n = 0 THEN <<>>
    ELSE insert_sorted(sorted_by_distance(srcs, n - 1), srcs[n])

\* _sort_sources_by_fault
sort_sources_by_fault(m) ==
    IF m.sources = <<>> THEN <<>>
    ELSE LET keyed ==
               [i \in 1..Len(m.sources) |->
                  [m.sources[i] EXCEPT !.distance_on_fault =
                     IF Len(m.polyline) < 2 THEN m.sources[i].lon
                     ELSE project_distance_on_fault(m, m.sources[i].lat,
                                                    m.sources[i].lon)]]
         IN sorted_by_distance(keyed, Len(keyed))

\* the fault distance of the source object start_source refers to: the one
\* in the list when it is there, else the object's own field (its default)
start_distance(ordered, id) ==
    IF \E i \in 1..Len(ordered) : ordered[i].id = id
    THEN (CHOOSE s \in {ordered[i] : i \in 1..Len(ordered)} : s.id = id).distance_on_fault
    ELSE 0

\* (mutant of activation_time: 'both' without the absolute value)
activation_time_signed(direction, dist, start_dist, v) ==
    IF direction = "forward"
    THEN IF dist < start_dist THEN None
         ELSE Some(((dist - start_dist) * 10) \div v)
    ELSE IF direction = "backward"
    THEN IF dist > start_dist THEN None
         ELSE Some(((start_dist - dist) * 10) \div v)
    ELSE Some(MulDiv(dist - start_dist, 10, v))

\* lines 128-139: activate_at of a source that is not the start source;
\* the quotient is in 0.1 s
activation_time(direction, dist, start_dist, v) ==
    IF direction = "forward"
    THEN IF dist < start_dist THEN None
         ELSE Some(((dist - start_dist) * 10) \div v)
    ELSE IF direction = "backward"
    THEN IF dist > start_dist THEN None
         ELSE Some(((start_dist - dist) * 10) \div v)
    ELSE Some((Abs(dist - start_dist) * 10) \div v)

\* recompute_activation_times
recompute_activation_times(m) ==
    LET ordered == sort_sources_by_fault(m) IN
    IF ordered = <<>> THEN m
    ELSE LET start_id == IF m.start_source = NoSource THEN ordered[1].id
                         ELSE m.start_source
             start_dist == start_distance(ordered, start_id)
         IN [ m EXCEPT !.sources =
                [i \in 1..Len(ordered) |->
                   [ordered[i] EXCEPT
                      !.active = FALSE,
                      !.eq_time = 0,
                      !.activate_at =
                         IF ordered[i].id = start_id THEN Some(0)
                         ELSE activation_time(m.direction,
                                 ordered[i].distance_on_fault, start_dist,
                                 m.rupture_velocity)]] ]

\* (mutants of update_source: activation strictly after activate_at; the
\* activating tick starting the source's clock at 0)
update_source_strict(src, time, dt) ==
    IF src.activate_at = None THEN src
    ELSE IF time > Val(src.activate_at)
         THEN IF ~src.active
              THEN [src EXCEPT !.active = TRUE,
                               !.eq_time = time - Val(src.activate_at)]
              ELSE [src EXCEPT !.eq_time = EarthquakeUpdate(src.eq_time, dt)]
         ELSE src

update_source_from_zero(src, time, dt) ==
    IF src.activate_at = None THEN src
    ELSE IF time >= Val(src.activate_at)
         THEN IF ~src.active
              THEN [src EXCEPT !.active = TRUE, !.eq_time = 0]
              ELSE [src EXCEPT !.eq_time = EarthquakeUpdate(src.eq_time, dt)]
         ELSE src

\* (mutant of update_source: active follows the clock in both directions)
update_source_follows_clock(src, time, dt) ==
    IF src.activate_at = None THEN src
    ELSE IF time >= Val(src.activate_at)
         THEN IF ~src.active
              THEN [src EXCEPT !.active = TRUE,
                               !.eq_time = time - Val(src.activate_at)]
              ELSE [src EXCEPT !.eq_time = EarthquakeUpdate(src.eq_time, dt)]
         ELSE [src EXCEPT !.active = FALSE]

\* lines 146-153: one source in a tick whose clock now reads `time`
update_source(src, time, dt) ==
    IF src.activate_at = None THEN src
    ELSE IF time >= Val(src.activate_at)
         THEN IF ~src.active
              THEN [src EXCEPT !.active = TRUE,
                               !.eq_time = time - Val(src.activate_at)]
              ELSE [src EXCEPT !.eq_time = EarthquakeUpdate(src.eq_time, dt)]
         ELSE src

\* MultiSourceManager.update(dt)
manager_update(m, dt) ==
    LET time == m.time + dt IN
    [ m EXCEPT !.time = time,
               !.sources = [i \in 1..Len(m.sources) |->
                               update_source(m.sources[i], time, dt)] ]

(***************************************************************************)
(* Earthquake (PointSource) and the intensity kernel                       *)
(* (earthquake.py, intensity.py)                                           *)
(***************************************************************************)
Earthquake(lat, lon, depth, magnitude) ==
    [ present |-> TRUE, lat |-> lat, lon |-> lon, depth |-> depth,
      magnitude |-> magnitude, time |-> 0 ]

\* squared km-plane distance from the epicentre, in (0.1 km)^2
epicentral_dist2(e, lat, lon) ==
    LET a == latlon_to_xy_km(e.lat, e.lon)
        b == latlon_to_xy_km(lat, lon)
    IN (a[1] - b[1]) * (a[1] - b[1]) + (a[2] - b[2]) * (a[2] - b[2])

get_epicentral_distance(e, lat, lon) == ISqrt(epicentral_dist2(e, lat, lon))

PWaveSpeed == 65      \* 6.5 km/s
SWaveSpeed == 40      \* 4.0 km/s

\* current_time >= sqrt(d_epi^2 + depth^2) / speed, compared exactly
\* (speed in 0.1 km/s, t in 0.1 s, distances in 0.1 km)
arrived(e, lat, lon, t, speed) ==
    /\ t >= 0
    /\ (speed * t) * (speed * t)
          >= 100 * (epicentral_dist2(e, lat, lon) + e.depth * e.depth)

\* d_epi <= surface wave radius, the radius being 0 while speed * t <= depth
within_radius(e, lat, lon, speed) ==
    LET d2 == epicentral_dist2(e, lat, lon) IN
    IF speed * e.time <= 10 * e.depth THEN d2 = 0
    ELSE 100 * d2 <= (speed * e.time) * (speed * e.time)
                        - 100 * e.depth * e.depth

\* attenuation with hypocentral distance r (0.1 km), in 0.01 intensity
Attenuation(r) ==
    IF r < 100 THEN 0
    ELSE IF r < 300 THEN 100
    ELSE IF r < 600 THEN 200
    ELSE IF r < 1000 THEN 300
    ELSE 450

\* calc_jma_intensity(magnitude, depth, epicentral_dist, bai): a magnitude /
\* hypocentral-distance formula times the site term; bai in percent
calc_jma_intensity(magnitude, depth, epicentral_dist, bai) ==
    MulDiv(2 * magnitude - 650 - Attenuation(hypot(epicentral_dist, depth)),
           bai, 100)

\* surface radius of a wave front (0.1 km): 0 while speed * t <= depth,
\* else sqrt((speed * t)^2 - depth^2)
wave_radius(e, speed) ==
    IF speed * e.time <= 10 * e.depth THEN 0
    ELSE ISqrt(((speed * e.time) * (speed * e.time)
                  - 100 * e.depth * e.depth) \div 100)

get_p_wave_radius(e) == wave_radius(e, PWaveSpeed)
get_s_wave_radius(e) == wave_radius(e, SWaveSpeed)

\* RuptureSource.eq: the source's own Earthquake (__post_init__), its clock
\* kept in eq_time
source_eq(src) ==
    [ present |-> TRUE, lat |-> src.lat, lon |-> src.lon, depth |-> src.depth,
      magnitude |-> src.magnitude, time |-> src.eq_time ]

\* bai = (amp * 4 + amp * amp) / 5, amp and bai in percent
bai_from_amp(amp) == (amp * 4 + (amp * amp) \div 100) \div 5

\* multisource.py lines 177-194: one turn of calc_intensity's loop; best is
\* <<max_intensity, max_is_s>> so far
source_intensity(src, lat, lon, bai, best) ==
    IF ~src.active THEN best
    ELSE
    LET e == source_eq(src)
        epicentral_dist == get_epicentral_distance(e, lat, lon)
        s_intensity == calc_jma_intensity(e.magnitude, e.depth, epicentral_dist, bai)
        p_intensity == MulDiv(s_intensity, 100, 150) - 50
    IN IF within_radius(e, lat, lon, SWaveSpeed) /\ s_intensity >= 50
       THEN IF s_intensity > best[1] THEN <<s_intensity, TRUE>> ELSE best
       ELSE IF within_radius(e, lat, lon, PWaveSpeed) /\ p_intensity >= 50
       THEN IF p_intensity > best[1] THEN <<p_intensity, FALSE>> ELSE best
       ELSE best

RECURSIVE calc_intensity_loop(_, _, _, _, _, _)
calc_intensity_loop(srcs, i, lat, lon, bai, best) ==
    IF i > Len(srcs) THEN best
    ELSE calc_intensity_loop(srcs, i + 1, lat, lon, bai,
                             source_intensity(srcs[i], lat, lon, bai, best))

\* MultiSourceManager.calc_intensity(lat, lon, amp): <<intensity, is_s_wave>>
calc_intensity(m, lat, lon, amp) ==
    calc_intensity_loop(m.sources, 1, lat, lon, bai_from_amp(amp), <<0, FALSE>>)

(***************************************************************************)
(* The time-dependent envelope (eew_calculator.py). Times inside the       *)
(* envelope are in 0.01 s, factors in 1/1000.                              *)
(***************************************************************************)
TAU_P_RISE == 50      \* 0.5 s
TAU_P_DECAY == 800    \* 8.0 s
TAU_S_RISE == 80      \* 0.8 s

\* 1000 * e^(-k/4) for k = 0 .. 28
ExpTable == << 1000, 779, 607, 472, 368, 287, 223, 174, 135, 105, 82, 64, 50,
               39, 30, 24, 18, 14, 11, 9, 7, 5, 4, 3, 2, 2, 2, 1, 1 >>

\* math.exp(-num / den), den > 0: the table, interpolated between quarters
exp_neg(num, den) ==
    LET k == (4 * num) \div den
        rem == 4 * num - k * den
    IN IF k + 2 > Len(ExpTable) THEN 0
       ELSE ExpTable[k + 1] - MulDiv(ExpTable[k + 1] - ExpTable[k + 2], rem, den)

\* 1000 * 2^(k/10) for k = 0 .. 9
Pow2Table == << 1000, 1072, 1149, 1231, 1320, 1414, 1516, 1625, 1741, 1866 >>

\* 2.0 ** x, x in 0.01 (read to the tenth)
pow2(x) ==
    LET n == x \div 100
        f == Pow2Table[((x % 100) \div 10) + 1]
    IN IF n >= 0 THEN f * (2 ^ n) ELSE f \div (2 ^ (0 - n))

\* 1000 * 10^(k/10) for k = 1 .. 20
Log10Steps == << 1259, 1585, 1995, 2512, 3162, 3981, 5012, 6310, 7943, 10000,
                 12589, 15849, 19953, 25119, 31623, 39811, 50119, 63096,
                 79433, 100000 >>

\* 100 * math.log10(r / 1000), read to the tenth
log10(r) == 10 * Cardinality({k \in 1..Len(Log10Steps) : Log10Steps[k] <= r})

\* _tau_s_decay(magnitude, distance_km, amp), in 0.01 s; distance in 0.1 km,
\* amp in percent
tau_s_decay(magnitude, distance, amp) ==
    LET mag_base == MulDiv(400, pow2(magnitude - 500), 1000)
        dist_factor == 1000 + log10(10 * (distance + 100))
        safe_amp == Max2(amp, 10)
        site_factor == IF safe_amp <= 100 THEN 1000
                       ELSE IF safe_amp <= 200 THEN 1300
                       ELSE 1800
        d5_95 == MulDiv(MulDiv(mag_base, dist_factor, 1000), site_factor, 1000)
    IN Max2(200, Min2(4000, MulDiv(d5_95, 10, 35)))

\* _attack(dt, tau)
env_attack(dt, tau) == IF dt <= 0 THEN 0 ELSE 1000 - exp_neg(dt, tau)

\* _decay(dt, tau)
env_decay(dt, tau) == IF dt <= 0 THEN 0 ELSE exp_neg(dt, tau)

\* _plateau_duration(magnitude), in 0.01 s
plateau_duration(magnitude) == MulDiv(200, pow2(magnitude - 600), 1000)

\* eq.time - arrival time at the site, in 0.01 s; at most 0 until the wave
\* is there and at least 0.01 s once it has passed
time_since_arrival(e, lat, lon, speed) ==
    LET h2 == 100 * (epicentral_dist2(e, lat, lon) + e.depth * e.depth)
        lag == 10 * e.time - (10 * ISqrt(h2)) \div speed
    IN IF (speed * e.time) * (speed * e.time) <= h2 THEN Min2(lag, 0)
       ELSE Max2(lag, 1)

\* envelope_single(eq, lat, lon, amp): <<intensity, is_s_wave_dominant>>
envelope_single(e, lat, lon, amp) ==
    LET epicentral_dist == get_epicentral_distance(e, lat, lon)
        i_s_peak == calc_jma_intensity(e.magnitude, e.depth, epicentral_dist,
                                       bai_from_amp(amp))
        i_p_peak == Max2(0, i_s_peak - 150)
        dt_p == time_since_arrival(e, lat, lon, PWaveSpeed)
        dt_s == time_since_arrival(e, lat, lon, SWaveSpeed)
        i_p_env == MulDiv(MulDiv(i_p_peak, env_attack(dt_p, TAU_P_RISE), 1000),
                          env_decay(dt_p, TAU_P_DECAY), 1000)
        tau_s == tau_s_decay(e.magnitude, epicentral_dist, amp)
        plateau == plateau_duration(e.magnitude)
        i_s_env == IF dt_s <= 0 THEN 0
                   ELSE IF dt_s <= plateau
                   THEN MulDiv(i_s_peak, env_attack(dt_s, TAU_S_RISE), 1000)
                   ELSE MulDiv(i_s_peak, env_decay(dt_s - plateau, tau_s), 1000)
    IN IF i_s_env >= i_p_env THEN <<Max2(0, i_s_env), TRUE>>
       ELSE <<Max2(0, i_p_env), FALSE>>

RECURSIVE envelope_multi_loop(_, _, _, _, _, _)
envelope_multi_loop(srcs, i, lat, lon, amp, best) ==
    IF i > Len(srcs) THEN best
    ELSE LET r == IF srcs[i].active
                  THEN envelope_single(source_eq(srcs[i]), lat, lon, amp)
                  ELSE best
         IN envelope_multi_loop(srcs, i + 1, lat, lon, amp,
                                IF srcs[i].active /\ r[1] > best[1] THEN r
                                ELSE best)

\* envelope_multi(manager, lat, lon, amp): <<intensity, is_s_wave_dominant>>
envelope_multi(m, lat, lon, amp) ==
    envelope_multi_loop(m.sources, 1, lat, lon, amp, <<0, FALSE>>)

(***************************************************************************)
(* Station and StationManager                                              *)
(***************************************************************************)
Untriggered == -300     \* the -3 sentinel

Station(id, lat, lon) ==
    [ id |-> id, lat |-> lat, lon |-> lon,
      intensity |-> Untriggered,
      target_intensity |-> Untriggered,
      max_intensity |-> Untriggered,
      p_wave_arrived |-> FALSE,
      s_wave_arrived |-> FALSE,
      time_since_peak |-> 0,
      p_arrival_time |-> None,
      p_amplitude |-> 0 ]

\* 10 ** (magnitude - 1.5), the exponent truncated to an integer
RECURSIVE Pow10(_)
Pow10(k) == IF k <= 0 THEN 1 ELSE 10 * Pow10(k - 1)

\* line 57: (10 ** (M - 1.5)) / max(1, d_epi)
p_amplitude_of(magnitude, epicentral_dist) ==
    (Pow10((magnitude - 150) \div 100) * 10) \div Max2(10, epicentral_dist)

\* math.log(x) / math.log(7) tabulated, x and the result in 0.01
Log7(x) ==
    IF x < 2 THEN -237
    ELSE IF x < 5 THEN -201
    ELSE IF x < 14 THEN -154
    ELSE IF x < 38 THEN -101
    ELSE IF x < 100 THEN -50
    ELSE IF x < 265 THEN 0
    ELSE IF x < 700 THEN 50
    ELSE IF x < 1900 THEN 100
    ELSE 150

\* line 96: 0.005 + 0.04 / math.log(magnitude + 0.2), tabulated, in 0.0001
base_random(magnitude) ==
    IF magnitude < 200 THEN 2244
    ELSE IF magnitude < 300 THEN 557
    ELSE IF magnitude < 400 THEN 394
    ELSE IF magnitude < 500 THEN 329
    ELSE IF magnitude < 600 THEN 293
    ELSE IF magnitude < 700 THEN 269
    ELSE IF magnitude < 800 THEN 253
    ELSE IF magnitude < 900 THEN 240
    ELSE 230

\* line 97: random.uniform(base_random * 0.3, base_random) as a percentage of
\* base_random; the model draws the two end points
RandomDraws == {30, 100}

\* variant: the minimum increment is not applied
increment_of_no_floor(st, e, p_only, dt, draw) ==
    LET current_i == Max2(1, st.intensity + 300)
        increment_factor == 100 - Log7(current_i)
        random_factor == MulDiv(base_random(e.magnitude), draw, 100)
        halved == IF p_only THEN random_factor \div 2 ELSE random_factor
    IN MulDiv(increment_factor * halved, dt * 6, 10000)

\* lines 92-107: the increment of one tick, in 0.01 intensity
increment_of(st, e, p_only, dt, draw) ==
    LET current_i == Max2(1, st.intensity + 300)
        increment_factor == 100 - Log7(current_i)       \* log(1/x) = -log(x)
        random_factor == MulDiv(base_random(e.magnitude), draw, 100)
        halved == IF p_only THEN random_factor \div 2 ELSE random_factor
        increment == MulDiv(increment_factor * halved, dt * 6, 10000)
        min_increment == 5 * dt
    IN Max2(increment, min_increment)

\* variant: the increment is applied without the cap at the target
grow_uncapped(st, increment, dt) ==
    LET grown == [st EXCEPT !.intensity = @ + increment, !.time_since_peak = 0]
    IN IF grown.intensity > grown.max_intensity
       THEN [grown EXCEPT !.max_intensity = grown.intensity]
       ELSE grown

\* variant: the running maximum is not kept
grow_no_max(st, increment, dt) ==
    IF st.intensity + increment < st.target_intensity
    THEN [st EXCEPT !.intensity = @ + increment, !.time_since_peak = 0]
    ELSE [st EXCEPT !.intensity = st.target_intensity,
                    !.time_since_peak = @ + dt]

\* lines 109-121: apply the increment, then the running maximum
grow(st, increment, dt) ==
    LET grown ==
          IF st.intensity + increment < st.target_intensity
          THEN [st EXCEPT !.intensity = @ + increment, !.time_since_peak = 0]
          ELSE [st EXCEPT !.intensity = st.target_intensity,
                          !.time_since_peak = @ + dt]
    IN IF grown.intensity > grown.max_intensity
       THEN [grown EXCEPT !.max_intensity = grown.intensity]
       ELSE grown

\* (mutant of arrival_flags: the two arrival times are taken the wrong way
\* round)
arrival_flags_swapped(st, e, current_time) ==
    [ p |-> arrived(e, st.lat, st.lon, current_time, SWaveSpeed),
      s |-> arrived(e, st.lat, st.lon, current_time, PWaveSpeed) ]

\* lines 41-48: current_time >= p_arrival_time, current_time >= s_arrival_time
arrival_flags(st, e, current_time) ==
    [ p |-> arrived(e, st.lat, st.lon, current_time, PWaveSpeed),
      s |-> arrived(e, st.lat, st.lon, current_time, SWaveSpeed) ]

\* variant: the branch taken before any arrival does not return, and the
\* growth statements run on the -3 target
station_update_no_return(st, e, current_time, dt, draw) ==
    LET p == arrival_flags(st, e, current_time).p
        s == arrival_flags(st, e, current_time).s
        epicentral_dist == get_epicentral_distance(e, st.lat, st.lon)
        first_p == p /\ ~st.p_wave_arrived
        st1 == [st EXCEPT
                  !.p_wave_arrived = p,
                  !.s_wave_arrived = s,
                  !.p_arrival_time = IF first_p THEN Some(current_time) ELSE @,
                  !.p_amplitude =
                      IF first_p /\ epicentral_dist > 0
                      THEN p_amplitude_of(e.magnitude, epicentral_dist)
                      ELSE @]
        s_intensity == calc_jma_intensity(e.magnitude, e.depth, epicentral_dist, 100)
    IN IF s
       THEN LET st2 == [st1 EXCEPT !.target_intensity = s_intensity] IN
            grow(st2, increment_of(st2, e, FALSE, dt, draw), dt)
       ELSE IF p
       THEN LET st2 == [st1 EXCEPT !.target_intensity =
                           Max2(Untriggered, MulDiv(s_intensity, 100, 150) - 50)] IN
            grow(st2, increment_of(st2, e, TRUE, dt, draw), dt)
       ELSE LET st2 == [st1 EXCEPT !.target_intensity = Untriggered,
                                   !.intensity = Untriggered] IN
            grow(st2, increment_of(st2, e, FALSE, dt, draw), dt)

\* Station.update(earthquake, current_time, dt) for one random draw
station_update(st, e, current_time, dt, draw) ==
    LET p == arrival_flags(st, e, current_time).p
        s == arrival_flags(st, e, current_time).s
        epicentral_dist == get_epicentral_distance(e, st.lat, st.lon)
        first_p == p /\ ~st.p_wave_arrived
        st1 == [st EXCEPT
                  !.p_wave_arrived = p,
                  !.s_wave_arrived = s,
                  !.p_arrival_time = IF first_p THEN Some(current_time) ELSE @,
                  !.p_amplitude =
                      IF first_p /\ epicentral_dist > 0
                      THEN p_amplitude_of(e.magnitude, epicentral_dist)
                      ELSE @]
        s_intensity == calc_jma_intensity(e.magnitude, e.depth, epicentral_dist, 100)
    IN IF s
       THEN LET st2 == [st1 EXCEPT !.target_intensity = s_intensity] IN
            grow(st2, increment_of(st2, e, FALSE, dt, draw), dt)
       ELSE IF p
       THEN LET st2 == [st1 EXCEPT !.target_intensity =
                           Max2(Untriggered, MulDiv(s_intensity, 100, 150) - 50)] IN
            grow(st2, increment_of(st2, e, TRUE, dt, draw), dt)
       ELSE [st1 EXCEPT !.target_intensity = Untriggered,
                        !.intensity = Untriggered]

\* Station.get_intensity_level: the level as a set, empty for None
get_intensity_level(st) ==
    IF st.intensity < 0 THEN {}
    ELSE IF st.intensity < 100 THEN {0}
    ELSE IF st.intensity < 200 THEN {1}
    ELSE IF st.intensity < 300 THEN {2}
    ELSE IF st.intensity < 400 THEN {3}
    ELSE IF st.intensity < 500 THEN {4}
    ELSE IF st.intensity < 550 THEN {5}
    ELSE IF st.intensity < 600 THEN {}
    ELSE IF st.intensity < 650 THEN {6}
    ELSE {}

\* StationManager.reset
station_reset(st) == Station(st.id, st.lat, st.lon)

(***************************************************************************)
(* Idle values of the objects a specification does not exercise            *)
(***************************************************************************)
NoManager == [present |-> FALSE]
NoQuake == [present |-> FALSE]
NoDriver == [present |-> FALSE]
NoStep == [op |-> "none"]

(***************************************************************************)
(* Specification of the tracker alone: a constructed tracker receives any  *)
(* sequence of update(n, t) and consume_correction_flag() calls.           *)
(***************************************************************************)
OthersIdle ==
    /\ mgr = NoManager /\ mcall = [op |-> "none", dt |-> 0]
    /\ eq = NoQuake /\ stations = <<>> /\ drv = NoDriver /\ scall = NoStep

TrackerInit ==
    /\ \E en \in BOOLEAN :
       \E a \in InitLatErrors, b \in InitLonErrors,
          c \in InitDepthErrors, d \in InitMagErrors :
          tracker = EEWTracker(TrueLat, TrueLon, TrueDepth, TrueMag, en, a, b, c, d)
    /\ call = NoCall
    /\ OthersIdle

TrackerUpdate ==
    /\ tracker.present
    /\ \E n \in StationCounts :
       \E o \in tracker_update(tracker, n) :
          /\ tracker' = o.t
          /\ call' = [op |-> "update", n |-> n, result |-> o.result,
                      overthrown |-> o.overthrown]
    /\ UNCHANGED <<mgr, mcall, eq, stations, drv, scall>>

TrackerConsume ==
    /\ tracker.present
    /\ LET o == consume_correction_flag(tracker) IN
          /\ tracker' = o.t
          /\ call' = [op |-> "consume", n |-> 0, result |-> o.result,
                      overthrown |-> FALSE]
    /\ UNCHANGED <<mgr, mcall, eq, stations, drv, scall>>

TrackerNext == TrackerUpdate \/ TrackerConsume

SpecTracker == TrackerInit /\ [][TrackerNext]_vars

(***************************************************************************)
(* Specification of a tracker whose error fields were assigned by the      *)
(* caller after construction (the attributes are public; the overthrow     *)
(* scenario starts from mag_error = +1.5).                                 *)
(***************************************************************************)
ForcedLatErrors == {80}
ForcedLonErrors == {4}
ForcedDepthErrors == {350, -310, 100}
ForcedMagErrors == {150, 90, 8}

ForcedInit ==
    /\ \E a \in ForcedLatErrors, b \in ForcedLonErrors,
          c \in ForcedDepthErrors, d \in ForcedMagErrors :
          tracker = EEWTracker(TrueLat, TrueLon, TrueDepth, TrueMag, TRUE, a, b, c, d)
    /\ call = NoCall
    /\ OthersIdle

SpecForced == ForcedInit /\ [][TrackerNext]_vars

(***************************************************************************)
(* Specification of a tracker constructed at the edge of what the setting  *)
(* screen allows: depth 0 (max(0, depth - 10)) and magnitude 9.5 or 1.0,   *)
(* where the clamps of the published estimate take effect.                 *)
(***************************************************************************)
EdgeTruths == { <<TrueLat, TrueLon, 0, 950>>, <<TrueLat, TrueLon, 100, 100>> }

EdgeInit ==
    /\ \E truth \in EdgeTruths :
       \E a \in InitLatErrors, c \in InitDepthErrors, d \in InitMagErrors :
          tracker = EEWTracker(truth[1], truth[2], truth[3], truth[4],
                               TRUE, a, 4, c, d)
    /\ call = NoCall
    /\ OthersIdle

SpecEdge == EdgeInit /\ [][TrackerNext]_vars

(***************************************************************************)
(* Specification of test_eew_tracker: a tracker on the test's truth, with  *)
(* any of the sampled initial draws, is fed the test's station counts in   *)
(* order; the loop stops early once the tracker is converged.              *)
(***************************************************************************)
\* line 266
station_counts == <<0, 1, 2, 3, 5, 8, 13, 20, 30, 50>>

\* the constructor's draws tried by the test run: the extremes of
\* random.uniform(-0.8, 0.8) / (-30, 30), mid values and values within
\* the convergence thresholds
TestLatErrors == {-80, 30, 4}
TestLonErrors == {4, 80}
TestDepthErrors == {-300, 40}
TestMagErrors == {80, 9}

\* the loop has not run yet: position 0, no revision seen, not stopped
NoTestStep == [op |-> "test", i |-> 0, fired |-> {}, stopped |-> FALSE]

TestInit ==
    /\ \E a \in TestLatErrors, b \in TestLonErrors,
          c \in TestDepthErrors, d \in TestMagErrors :
          tracker = EEWTracker(TrueLat, TrueLon, TrueDepth, TrueMag, TRUE, a, b, c, d)
    /\ call = NoCall
    /\ scall = NoTestStep
    /\ mgr = NoManager /\ mcall = [op |-> "none", dt |-> 0]
    /\ eq = NoQuake /\ stations = <<>> /\ drv = NoDriver

\* one turn of the loop of test_eew_tracker (lines 267-280)
TestStep ==
    /\ tracker.present /\ scall.op = "test"
    /\ scall.i < Len(station_counts) /\ ~scall.stopped
    /\ \E count \in {station_counts[scall.i + 1]} :
       \E o \in tracker_update(tracker, count) :
       \E flag \in {IF o.result THEN consume_correction_flag(o.t)
                    ELSE [t |-> o.t, result |-> FALSE]} :
          /\ tracker' = flag.t
          /\ call' = [op |-> "update", n |-> count, result |-> o.result,
                      overthrown |-> o.overthrown]
          /\ scall' = [op |-> "test", i |-> scall.i + 1,
                       fired |-> IF o.result THEN scall.fired \cup {count}
                                 ELSE scall.fired,
                       stopped |-> is_converged(flag.t)]
    /\ UNCHANGED <<mgr, mcall, eq, stations, drv>>

SpecTest == TestInit /\ [][TestStep]_vars


(***************************************************************************)
(* Specification of the multi-source manager: a constructed manager is     *)
(* configured and ticked through its public methods.                       *)
(***************************************************************************)
Fault == << <<3500, 13900>>, <<3500, 13950>>, <<3510, 13950>> >>
Polylines == {Fault, <<>>}
RuptureVelocities == {25, 0}

\* the sources a user can place: 1 at the first vertex, 2 and 4 projecting
\* on the same point of the first segment, 3 at the last vertex
SourcePool ==
    [ i \in 1..4 |->
        CASE i = 1 -> RuptureSource(1, 3500, 13900, 100, 700)
          [] i = 2 -> RuptureSource(2, 3510, 13925, 100, 650)
          [] i = 3 -> RuptureSource(3, 3510, 13950, 200, 700)
          [] i = 4 -> RuptureSource(4, 3490, 13925, 100, 600) ]

\* the placements tried, by pool index, in the order they were placed
Placements ==
    { <<>>, <<1>>, <<1, 2, 3>>, <<3, 2, 1>>, <<2, 4, 1>>, <<4, 2>>,
      <<3, 4, 2, 1>> }

SourceLists == { l \in Placements : Len(l) <= MaxSources }

Ids(srcs) == {srcs[i].id : i \in 1..Len(srcs)}

Dts == {0, 50, 100}
NegativeDts == {-50}

MultiInit ==
    /\ \E pl \in Polylines, v \in RuptureVelocities :
          mgr = MultiSourceManager(pl, v)
    /\ mcall = [op |-> "init", dt |-> 0]
    /\ tracker = NoTracker /\ call = NoCall
    /\ eq = NoQuake /\ stations = <<>> /\ drv = NoDriver /\ scall = NoStep

MultiFrame == UNCHANGED <<tracker, call, eq, stations, drv, scall>>

\* the start source is one of the manager's sources
MSSetSources ==
    /\ mgr.present
    /\ \E l \in SourceLists :
          /\ mgr.start_source = NoSource \/ \E i \in 1..Len(l) : l[i] = mgr.start_source
          /\ mgr' = set_sources(mgr, [i \in 1..Len(l) |-> SourcePool[l[i]]])
    /\ mcall' = [op |-> "set_sources", dt |-> 0]
    /\ MultiFrame

MSSetStartSource ==
    /\ mgr.present
    /\ \E id \in Ids(mgr.sources) \cup {NoSource} :
          mgr' = set_start_source(mgr, id)
    /\ mcall' = [op |-> "set_start_source", dt |-> 0]
    /\ MultiFrame

MSSetDirection ==
    /\ mgr.present
    /\ \E d \in Directions \cup {"sideways"} : mgr' = set_direction(mgr, d)
    /\ mcall' = [op |-> "set_direction", dt |-> 0]
    /\ MultiFrame

MSRecompute ==
    /\ mgr.present
    /\ mgr' = recompute_activation_times(mgr)
    /\ mcall' = [op |-> "recompute", dt |-> 0]
    /\ MultiFrame

MSUpdate(dts, limit) ==
    /\ mgr.present
    /\ \E dt \in dts :
          /\ mgr.time + dt <= limit
          /\ mgr.time + dt >= -limit
          /\ \A i \in 1..Len(mgr.sources) :
                Abs(mgr.sources[i].eq_time + dt) <= limit
          /\ mgr' = manager_update(mgr, dt)
          /\ mcall' = [op |-> "update", dt |-> dt]
    /\ MultiFrame

MSTick == MSUpdate(Dts, MaxTime)
MSAnyTick == MSUpdate({100} \cup NegativeDts, MaxBackTime)

MultiNext ==
    \/ MSSetSources \/ MSSetStartSource \/ MSSetDirection
    \/ MSRecompute \/ MSTick

SpecMulti == MultiInit /\ [][MultiNext]_vars

\* the same manager called with any dt, negative ones included (update does
\* not look at the sign of dt)
MultiAnyNext ==
    \/ MSSetSources \/ MSSetStartSource \/ MSSetDirection
    \/ MSRecompute \/ MSAnyTick

SpecMultiAny == MultiInit /\ [][MultiAnyNext]_vars

(***************************************************************************)
(* EarthquakeSimulator, single mode: the scenario start (ENTER), the tick  *)
(* of run() and the reset (R).  The station file gives both station lists  *)
(* (self.stations and station_manager.stations) the same sites, amp = 1.   *)
(***************************************************************************)
\* three sites around (34.9 N, 139.74 E) and one at (35.7 N, 139.7 E)
StationSites ==
    << <<3490, 13974>>, <<3492, 13976>>, <<3488, 13972>>, <<3570, 13970>> >>

NumStations == 4

\* the amp of each entry of the station manager's station list, in percent
\* (Station keeps none of it)
StationAmps == <<100, 150, 100, 200>>

InitialStations ==
    [i \in 1..NumStations |-> Station(i, StationSites[i][1], StationSites[i][2])]

\* regions_data: rectangles <<code, south, north, west, east>>
Regions == << <<"R1", 3400, 3530, 13900, 14000>>,
              <<"R2", 3530, 3600, 13900, 14000>> >>

\* _point_in_polygon on a rectangle: the ray-casting rule counts the south
\* and west edges out and the north and east edges in
point_in_polygon(lat, lon, r) ==
    /\ lat > r[2] /\ lat <= r[3]
    /\ lon > r[4] /\ lon <= r[5]

RECURSIVE find_region_from(_, _, _)
find_region_from(lat, lon, i) ==
    IF i > Len(Regions) THEN ""
    ELSE IF point_in_polygon(lat, lon, Regions[i]) THEN Regions[i][1]
    ELSE find_region_from(lat, lon, i + 1)

\* _find_region_for_point
find_region_for_point(lat, lon) == find_region_from(lat, lon, 1)

\* EarthquakeSimulator.__init__ (the fields a tick reads or writes)
Simulator ==
    [ present |-> TRUE,
      station_intensities |-> [i \in 1..NumStations |-> None],
      region_max_intensities |-> [i \in 1..Len(Regions) |-> None],
      max_intensity |-> 0,
      max_intensity_location |-> "",
      station_region_cache |-> None,
      triggered_intensity_sounds |-> {},
      last_intensity_snapshot |-> <<>>,
      intensity_stable_time |-> 0,
      final_report_played |-> FALSE ]

\* calculate_station_intensities_single: per site <<intensity, is_s_wave>>
\* or nothing
station_intensity_single(e, site) ==
    LET d == get_epicentral_distance(e, site[1], site[2])
        s_intensity == calc_jma_intensity(e.magnitude, e.depth, d, 100)
        p_intensity == MulDiv(s_intensity, 100, 150) - 50
    IN IF within_radius(e, site[1], site[2], SWaveSpeed) /\ s_intensity >= 50
       THEN Some(<<s_intensity, TRUE>>)
       ELSE IF within_radius(e, site[1], site[2], PWaveSpeed) /\ p_intensity >= 50
       THEN Some(<<p_intensity, FALSE>>)
       ELSE None

calculate_station_intensities_single(e) ==
    [i \in 1..NumStations |-> station_intensity_single(e, StationSites[i])]

\* calculate_station_intensities_multi (lines 483-503): per site the
\* manager's <<intensity, is_s_wave>>, or nothing below 0.5; amp = 1.0
calculate_station_intensities_multi(m) ==
    [i \in 1..NumStations |->
        LET r == calc_intensity(m, StationSites[i][1], StationSites[i][2], 100)
        IN IF r[1] < 50 THEN None ELSE Some(r)]

\* lines 2001-2004
detected_station_count(si) ==
    Cardinality({i \in 1..NumStations : si[i] # None /\ Val(si[i])[1] >= 300})

\* update_region_intensities_from_new_stations
update_region_intensities(d, sts) ==
    LET cache == IF d.station_region_cache = None
                 THEN [i \in 1..Len(sts) |-> find_region_for_point(sts[i].lat, sts[i].lon)]
                 ELSE Val(d.station_region_cache)
        counted == {i \in 1..Len(sts) : sts[i].intensity >= 50 /\ cache[i] # ""}
        region_max ==
           [r \in 1..Len(Regions) |->
              LET mine == {i \in counted : cache[i] = Regions[r][1]} IN
              IF mine = {} THEN None
              ELSE Some(CHOOSE v \in {sts[i].intensity : i \in mine} :
                          \A i \in mine : sts[i].intensity <= v)]
        top == IF counted = {} THEN 0
               ELSE Max2(0, CHOOSE v \in {sts[i].intensity : i \in counted} :
                              \A i \in counted : sts[i].intensity <= v)
        \* the first station, in list order, that holds the maximum
        holder == IF top > 0
                  THEN CHOOSE i \in counted :
                         /\ sts[i].intensity = top
                         /\ \A j \in counted : sts[j].intensity = top => i <= j
                  ELSE 0
    IN [ d EXCEPT
           !.station_region_cache = Some(cache),
           !.region_max_intensities = region_max,
           !.max_intensity = top,
           !.max_intensity_location = IF holder = 0 THEN "" ELSE cache[holder] ]

\* the :.1f text of an intensity, as the number of tenths (half rounds up)
Tenths(x) == IF x >= 0 THEN (x + 5) \div 10 ELSE -((-x + 5) \div 10)

RECURSIVE snapshot_from(_, _)
snapshot_from(sts, i) ==
    IF i > Len(sts) THEN <<>>
    ELSE IF sts[i].intensity > 250
         THEN <<Tenths(sts[i].intensity)>> \o snapshot_from(sts, i + 1)
         ELSE snapshot_from(sts, i + 1)

\* math.exp(magnitude) * 0.3 tabulated at the whole magnitudes, in 0.1 s
final_report_threshold(magnitude) ==
    IF magnitude < 200 THEN 8
    ELSE IF magnitude < 300 THEN 22
    ELSE IF magnitude < 400 THEN 60
    ELSE IF magnitude < 500 THEN 164
    ELSE IF magnitude < 600 THEN 445
    ELSE IF magnitude < 700 THEN 1210
    ELSE IF magnitude < 800 THEN 3290
    ELSE 8943

\* check_final_report(dt): the fields after, and whether the report played
check_final_report(d, e, sts, dt) ==
    LET snapshot == snapshot_from(sts, 1)
        stable == snapshot = d.last_intensity_snapshot /\ snapshot # <<>>
        d1 == IF stable
              THEN [d EXCEPT !.intensity_stable_time = @ + dt]
              ELSE [d EXCEPT !.intensity_stable_time = 0,
                             !.last_intensity_snapshot = snapshot,
                             !.final_report_played = FALSE]
        fire == /\ d1.intensity_stable_time > final_report_threshold(e.magnitude)
                /\ ~d1.final_report_played
                /\ snapshot # <<>>
    IN [ d |-> IF fire THEN [d1 EXCEPT !.final_report_played = TRUE] ELSE d1,
         played |-> fire ]

\* (mutant of new_intensity_levels: every detected level is emitted again)
new_intensity_levels_repeated(detected_levels, triggered) == detected_levels

\* line 1969: the levels detected in this pass that were not emitted before
new_intensity_levels(detected_levels, triggered) == detected_levels \ triggered

\* (mutant of apply_revision: the source is rebuilt, its clock back at 0)
apply_revision_restart(e, t) ==
    [e EXCEPT !.lat = t.current_lat, !.lon = t.current_lon,
              !.depth = t.current_depth, !.magnitude = t.current_mag,
              !.time = 0]

\* lines 2011-2015: the revised estimate is written into the earthquake
apply_revision(e, t) ==
    [e EXCEPT !.lat = t.current_lat, !.lon = t.current_lon,
              !.depth = t.current_depth, !.magnitude = t.current_mag]

\* the truths a user sets up (temp_lat, temp_lon, temp_depth, temp_mag)
Truths == { <<TrueLat, TrueLon, TrueDepth, TrueMag>>,
            <<3570, 13970, 100, 600>> }

\* the constructor's draws tried in single mode
SingleErrors == { <<-80, 4, -300, -80>>, <<4, 4, 40, 9>> }

TickDts == {10, 20}

\* what a pass emitted; reports counts the final reports of the scenario
NoEvents == [op |-> "none", dt |-> 0, new_levels |-> {}, final_report |-> FALSE,
             revised |-> FALSE, correction |-> FALSE, scenario |-> 0,
             reports |-> 0, steps |-> <<>>]

\* the steps one pass performs and the events it emits, in the order of the
\* statements of run(): lines 1951, 1957, 1964, 1967-1975, 1986, 2007, 2017
pass_steps(new_levels, final_report, tracked, correction) ==
    <<"advance_time", "station_update", "region_rebuild">>
    \o (IF new_levels # {} THEN <<"intensity_level">> ELSE <<>>)
    \o (IF final_report THEN <<"final_report">> ELSE <<>>)
    \o (IF tracked THEN <<"tracker_update">> ELSE <<>>)
    \o (IF correction THEN <<"correction">> ELSE <<>>)

SingleInit ==
    /\ drv = Simulator
    /\ eq = NoQuake
    /\ tracker = NoTracker
    /\ call = NoCall
    /\ stations = InitialStations
    /\ scall = NoEvents
    /\ mgr = NoManager /\ mcall = [op |-> "none", dt |-> 0]

SingleFrame == UNCHANGED <<mgr, mcall>>

\* ENTER in setting mode (lines 1700-1748)
StartWith(truths, trackings, scenarios) ==
    /\ drv.present /\ ~eq.present
    /\ scall.scenario < scenarios
    /\ \E truth \in truths, tracking \in trackings, err \in SingleErrors :
          IF tracking
          THEN /\ tracker' = EEWTracker(truth[1], truth[2], truth[3], truth[4],
                                        TRUE, err[1], err[2], err[3], err[4])
               /\ eq' = Earthquake(tracker'.current_lat, tracker'.current_lon,
                                   tracker'.current_depth, tracker'.current_mag)
          ELSE /\ tracker' = NoTracker
               /\ eq' = Earthquake(truth[1], truth[2], truth[3], truth[4])
    /\ call' = NoCall
    /\ scall' = [NoEvents EXCEPT !.op = "start", !.scenario = scall.scenario + 1]
    /\ drv' = [drv EXCEPT !.max_intensity = 0,
                          !.triggered_intensity_sounds = {}]
    /\ stations' = [i \in 1..NumStations |-> station_reset(stations[i])]
    /\ SingleFrame

StartSingle == StartWith(Truths, BOOLEAN, MaxScenarios)

\* one pass of the single-mode branch of run() (lines 1950-2024)
TickWith(dts, limit) ==
    /\ drv.present /\ eq.present
    /\ \E dt \in {t \in dts : eq.time + t <= limit} :
       \* each intermediate value of the pass is bound once, in code order
       \E e1 \in {[eq EXCEPT !.time = EarthquakeUpdate(@, dt)]} :
       \E si1 \in {calculate_station_intensities_single(e1)} :
       \E draws \in [1..NumStations -> RandomDraws] :
       \E sts \in {[i \in 1..NumStations |->
                      station_update(stations[i], e1, e1.time, dt, draws[i])]} :
       \E d1 \in {update_region_intensities(drv, sts)} :
       \E new_levels \in {new_intensity_levels(
                             UNION {get_intensity_level(sts[i]) : i \in 1..NumStations},
                             d1.triggered_intensity_sounds)} :
       \E station_max \in {v \in {sts[i].intensity : i \in 1..NumStations} :
                             \A i \in 1..NumStations : sts[i].intensity <= v} :
       \E d3 \in {[d1 EXCEPT !.triggered_intensity_sounds = @ \cup new_levels,
                             !.max_intensity = Max2(@, station_max)]} :
       \E fr \in {check_final_report(d3, e1, sts, dt)} :
       \E n \in {detected_station_count(si1)} :
         /\ stations' = sts
         /\ IF tracker.present
            THEN \E o \in tracker_update(tracker, n) :
                 \E flag \in {IF o.result THEN consume_correction_flag(o.t)
                              ELSE [t |-> o.t, result |-> FALSE]} :
                 \E e2 \in {IF o.result THEN apply_revision(e1, o.t) ELSE e1} :
                    /\ tracker' = flag.t
                    /\ call' = [op |-> "update", n |-> n, result |-> o.result,
                                overthrown |-> o.overthrown]
                    /\ eq' = e2
                    /\ drv' = [fr.d EXCEPT !.station_intensities =
                                  IF o.result
                                  THEN calculate_station_intensities_single(e2)
                                  ELSE si1]
                    /\ scall' = [op |-> "tick", dt |-> dt,
                                 new_levels |-> new_levels,
                                 final_report |-> fr.played,
                                 revised |-> o.result,
                                 correction |-> flag.result,
                                 scenario |-> scall.scenario,
                                 reports |-> scall.reports
                                             + (IF fr.played THEN 1 ELSE 0),
                                 steps |-> pass_steps(new_levels, fr.played,
                                                      TRUE, flag.result)]
            ELSE /\ tracker' = tracker
                 /\ call' = call
                 /\ eq' = e1
                 /\ drv' = [fr.d EXCEPT !.station_intensities = si1]
                 /\ scall' = [op |-> "tick", dt |-> dt,
                              new_levels |-> new_levels,
                              final_report |-> fr.played,
                              revised |-> FALSE, correction |-> FALSE,
                              scenario |-> scall.scenario,
                              reports |-> scall.reports
                                          + (IF fr.played THEN 1 ELSE 0),
                              steps |-> pass_steps(new_levels, fr.played,
                                                   FALSE, FALSE)]
    /\ SingleFrame

SingleTick == TickWith(TickDts, MaxQuakeTime)

ResetSingle_drops_cache ==
    /\ drv.present /\ eq.present
    /\ eq' = NoQuake
    /\ tracker' = NoTracker
    /\ call' = NoCall
    /\ drv' = [drv EXCEPT !.station_intensities = [i \in 1..NumStations |-> None],
                          !.region_max_intensities = [i \in 1..Len(Regions) |-> None],
                          !.max_intensity = 0,
                          !.station_region_cache = None,
                          !.triggered_intensity_sounds = {}]
    /\ stations' = [i \in 1..NumStations |-> station_reset(stations[i])]
    /\ scall' = [NoEvents EXCEPT !.op = "reset", !.scenario = scall.scenario]
    /\ SingleFrame

\* the R key in single mode (lines 1804-1833)
ResetSingle ==
    /\ drv.present /\ eq.present
    /\ eq' = NoQuake
    /\ tracker' = NoTracker
    /\ call' = NoCall
    /\ drv' = [drv EXCEPT !.station_intensities = [i \in 1..NumStations |-> None],
                          !.region_max_intensities = [i \in 1..Len(Regions) |-> None],
                          !.max_intensity = 0,
                          !.triggered_intensity_sounds = {}]
    /\ stations' = [i \in 1..NumStations |-> station_reset(stations[i])]
    /\ scall' = [NoEvents EXCEPT !.op = "reset", !.scenario = scall.scenario]
    /\ SingleFrame

SingleNext == StartSingle \/ SingleTick \/ ResetSingle

SpecSingle == SingleInit /\ [][SingleNext]_vars

(***************************************************************************)
(* Specification of a single source run in both modes side by side: the    *)
(* manager is started as start_multi_simulation does, with direction       *)
(* 'both' and its only source as the start source, next to an Earthquake   *)
(* of the same parameters; every pass hands both the same dt.              *)
(***************************************************************************)
PairDts == {0, 10, 50}

PairInit ==
    /\ mgr = NoManager /\ mcall = [op |-> "none", dt |-> 0]
    /\ eq = NoQuake
    /\ tracker = NoTracker /\ call = NoCall
    /\ stations = <<>> /\ drv = NoDriver /\ scall = NoStep

PairFrame == UNCHANGED <<tracker, call, stations, drv, scall>>

\* start_multi_simulation (lines 412-421) and ENTER in single mode
PairStart ==
    /\ ~mgr.present /\ ~eq.present
    /\ \E truth \in Truths, pl \in Polylines, v \in RuptureVelocities :
       \E src \in {RuptureSource(1, truth[1], truth[2], truth[3], truth[4])} :
          /\ mgr' = recompute_activation_times(
                       set_start_source(
                         set_sources(
                           set_direction(MultiSourceManager(pl, v), "both"),
                           <<src>>),
                         src.id))
          /\ eq' = Earthquake(truth[1], truth[2], truth[3], truth[4])
    /\ mcall' = [op |-> "start", dt |-> 0]
    /\ PairFrame

\* one pass of run() in either mode (lines 1951 and 2027)
PairTick ==
    /\ mgr.present /\ eq.present
    /\ \E dt \in {t \in PairDts : mgr.time + t <= MaxTime} :
          /\ mgr' = manager_update(mgr, dt)
          /\ eq' = [eq EXCEPT !.time = EarthquakeUpdate(@, dt)]
          /\ mcall' = [op |-> "update", dt |-> dt]
    /\ PairFrame

PairNext == PairStart \/ PairTick

SpecPair == PairInit /\ [][PairNext]_vars

(***************************************************************************)
(* Specification of weak sources: the smallest magnitudes the setting      *)
(* screen allows (the magnitude keys stop at 1.0), no tracking.            *)
(***************************************************************************)
WeakTruths == { <<3570, 13970, 0, 100>>, <<3490, 13974, 0, 150>>,
                <<3570, 13970, 100, 300>> }

MaxWeakScenarios == 2

WeakStart == StartWith(WeakTruths, {FALSE}, MaxWeakScenarios)

WeakTick == TickWith(TickDts, MaxQuakeTime)

WeakNext == WeakStart \/ WeakTick \/ ResetSingle

SpecWeak == SingleInit /\ [][WeakNext]_vars

(***************************************************************************)
(* Specification of the final report: a shallow M5.0 source under the      *)
(* fourth station, no tracking, passes of 2 s, run long enough for the     *)
(* stable time to pass exp(5.0) * 0.3 = 44.5 s, and a second scenario      *)
(* after a reset.                                                          *)
(***************************************************************************)
MaxReportTime == 500
MaxReportScenarios == 2

ReportTruths == { <<3570, 13970, 0, 500>> }

ReportDts == {20}

ReportStart == StartWith(ReportTruths, {FALSE}, MaxReportScenarios)

ReportTick == TickWith(ReportDts, MaxReportTime)

ReportNext == ReportStart \/ ReportTick \/ ResetSingle

SpecReport == SingleInit /\ [][ReportNext]_vars

(***************************************************************************)
(* Specification of one station's growth under a constant target: a source *)
(* at the surface under the station (the S wave is there from the first    *)
(* pass on), passes of one constant dt, any random draws.                  *)
(***************************************************************************)
GrowMags == {400, 600, 700}
GrowDts == {5, 10, 20}
MaxGrowTime == 250       \* the source clock is stopped at 25 s

GrowSite == StationSites[4]

GrowInit ==
    /\ \E m \in GrowMags : eq = Earthquake(GrowSite[1], GrowSite[2], 0, m)
    /\ stations = << Station(1, GrowSite[1], GrowSite[2]) >>
    /\ \E dt \in GrowDts :
          scall = [op |-> "none", dt |-> dt, ticks |-> 0,
                   start |-> Untriggered, prev |-> Untriggered]
    /\ tracker = NoTracker /\ call = NoCall
    /\ mgr = NoManager /\ mcall = [op |-> "none", dt |-> 0]
    /\ drv = NoDriver

\* one pass: earthquake.update(dt), then the station's update (main.py
\* lines 1951-1962)
GrowTick ==
    /\ eq.time + scall.dt <= MaxGrowTime
    /\ \E e1 \in {[eq EXCEPT !.time = EarthquakeUpdate(@, scall.dt)]} :
       \E draw \in RandomDraws :
          /\ eq' = e1
          /\ stations' = << station_update(stations[1], e1, e1.time,
                                           scall.dt, draw) >>
    /\ scall' = [scall EXCEPT !.op = "tick", !.ticks = @ + 1,
                              !.prev = stations[1].intensity]
    /\ UNCHANGED <<tracker, call, mgr, mcall, drv>>

SpecGrow == GrowInit /\ [][GrowTick]_vars

(***************************************************************************)
(* Claims about the tracker                                                *)
(***************************************************************************)
UpdateStep == call'.op = "update" /\ tracker.present

\* C1: for an enabled tracker no update(n, t) with n < 3 revises (it returns
\* False and revision_count is unchanged), and while revision_count = 0 and
\* the tracker is not converged every update with n >= 3 is the first
\* revision (returns True, revision_count becomes 1).
C1_FirstRevision ==
    [][ (UpdateStep /\ tracker.enabled) =>
          /\ (call'.n < 3 =>
                 /\ call'.result = FALSE
                 /\ tracker'.revision_count = tracker.revision_count)
          /\ ( ( /\ call'.n >= 3
                 /\ tracker.revision_count = 0
                 /\ ~( /\ Abs(tracker.current_lat_error) < 5
                       /\ Abs(tracker.current_lon_error) < 5
                       /\ Abs(tracker.current_depth_error) < 50
                       /\ Abs(tracker.current_mag_error) < 10 ) ) =>
                 /\ call'.result = TRUE
                 /\ tracker'.revision_count = 1 ) ]_vars

C1_Witness ==
    /\ tracker.present /\ tracker.enabled
    /\ call.op = "update" /\ call.n = 3 /\ call.result = TRUE
    /\ tracker.revision_count = 1

\* C2: after the first revision an update(n, t) on an enabled, not converged
\* tracker revises iff n - last_detected_station_count >= 5, and the recorded
\* count moves only in a step that revises.
C2_SubsequentRevisions ==
    [][ /\ ( ( /\ UpdateStep /\ tracker.enabled
               /\ tracker.revision_count >= 1
               /\ ~( /\ Abs(tracker.current_lat_error) < 5
                     /\ Abs(tracker.current_lon_error) < 5
                     /\ Abs(tracker.current_depth_error) < 50
                     /\ Abs(tracker.current_mag_error) < 10 ) ) =>
               ( call'.result = TRUE <=>
                   call'.n - tracker.last_detected_station_count >= 5 ) )
        /\ ( tracker'.last_detected_station_count
                 # tracker.last_detected_station_count =>
               ( /\ call'.op = "update" /\ call'.result = TRUE
                 /\ tracker'.last_detected_station_count = call'.n
                 /\ tracker'.revision_count = tracker.revision_count + 1 ) ) ]_vars

C2_Witness ==
    /\ tracker.present /\ tracker.enabled
    /\ call.op = "update" /\ call.result = TRUE
    /\ tracker.revision_count = 2
    /\ tracker.last_detected_station_count = 8

\* C3: once the four errors are below the convergence thresholds
\* (0.05, 0.05, 5 km, 0.1) they stay there after every later call, no later
\* update revises, and revision_count, the errors and the estimate never
\* change again.
C3_ConvergedIsTerminal ==
    [][ ( /\ tracker.present
          /\ Abs(tracker.current_lat_error) < 5
          /\ Abs(tracker.current_lon_error) < 5
          /\ Abs(tracker.current_depth_error) < 50
          /\ Abs(tracker.current_mag_error) < 10 ) =>
        ( /\ Abs(tracker'.current_lat_error) < 5
          /\ Abs(tracker'.current_lon_error) < 5
          /\ Abs(tracker'.current_depth_error) < 50
          /\ Abs(tracker'.current_mag_error) < 10
          /\ (call'.op = "update" => call'.result = FALSE)
          /\ tracker'.revision_count = tracker.revision_count
          /\ tracker'.current_lat_error = tracker.current_lat_error
          /\ tracker'.current_lon_error = tracker.current_lon_error
          /\ tracker'.current_depth_error = tracker.current_depth_error
          /\ tracker'.current_mag_error = tracker.current_mag_error
          /\ tracker'.current_lat = tracker.current_lat
          /\ tracker'.current_lon = tracker.current_lon
          /\ tracker'.current_depth = tracker.current_depth
          /\ tracker'.current_mag = tracker.current_mag ) ]_vars

\* a tracker that converged through revisions ignores an update that would
\* otherwise revise (enough stations, increase >= 5)
C3_Witness ==
    /\ tracker.present /\ tracker.enabled
    /\ tracker.revision_count >= 1
    /\ Abs(tracker.current_lat_error) < 5
    /\ Abs(tracker.current_lon_error) < 5
    /\ Abs(tracker.current_depth_error) < 50
    /\ Abs(tracker.current_mag_error) < 10
    /\ call.op = "update" /\ call.result = FALSE
    /\ call.n - tracker.last_detected_station_count >= 5

\* C10: a revision made while |mag_error| > 1.0 or |depth_error| > 30 km is an
\* overthrow: the errors are re-drawn, afterwards |lat_err| <= 0.5,
\* |lon_err| <= 0.5, |depth_err| <= 20 km, |mag_err| <= 0.5, and no revision
\* of the tracker it leaves is an overthrow.
C10_Overthrow ==
    [][ ( /\ UpdateStep /\ call'.result = TRUE
          /\ \/ Abs(tracker.current_mag_error) > 100
             \/ Abs(tracker.current_depth_error) > 300 ) =>
        ( /\ call'.overthrown = TRUE
          /\ Abs(tracker'.current_lat_error) <= 50
          /\ Abs(tracker'.current_lon_error) <= 50
          /\ Abs(tracker'.current_depth_error) <= 200
          /\ Abs(tracker'.current_mag_error) <= 50
          /\ \A n \in StationCounts : \A o \in tracker_update(tracker', n) :
                 o.overthrown = FALSE ) ]_vars

C10_Witness ==
    /\ tracker.present /\ tracker.enabled
    /\ call.op = "update" /\ call.result = TRUE /\ call.overthrown = TRUE
    /\ tracker.revision_count = 1

\* C11: revision_count starts at 0, grows by exactly 1 in every update that
\* returns True (overthrows included) and is left alone by every call that
\* returns False; it never decreases.
C11_RevisionCount ==
    /\ (tracker.present /\ call.op = "none" => tracker.revision_count = 0)
    /\ [][ /\ tracker'.revision_count >= tracker.revision_count
           /\ (call'.op = "update" /\ call'.result = TRUE) =>
                 tracker'.revision_count = tracker.revision_count + 1
           /\ (call'.op = "update" /\ call'.result = FALSE) =>
                 tracker'.revision_count = tracker.revision_count
           /\ call'.op = "consume" =>
                 tracker'.revision_count = tracker.revision_count ]_vars

\* an overthrow made with 13 stations or more was counted as revision 1
C11_Witness ==
    /\ tracker.present /\ tracker.enabled
    /\ call.op = "update" /\ call.result = TRUE /\ call.overthrown = TRUE
    /\ call.n >= 13
    /\ tracker.revision_count = 1
    /\ tracker.last_detected_station_count = call.n

\* C12: an enabled tracker always publishes truth + error, clamped:
\* lat and lon exactly, depth = max(0, true_depth + depth_err),
\* magnitude = min(9.5, max(1.0, true_mag + mag_err)).
C12_EstimateIsTruthPlusError ==
    (tracker.present /\ tracker.enabled) =>
       /\ tracker.current_lat = tracker.true_lat + tracker.current_lat_error
       /\ tracker.current_lon = tracker.true_lon + tracker.current_lon_error
       /\ tracker.current_depth
             = (IF tracker.true_depth + tracker.current_depth_error < 0 THEN 0
                ELSE tracker.true_depth + tracker.current_depth_error)
       /\ tracker.current_depth >= 0
       /\ tracker.current_mag
             = (IF tracker.true_mag + tracker.current_mag_error > 950 THEN 950
                ELSE IF tracker.true_mag + tracker.current_mag_error < 100 THEN 100
                ELSE tracker.true_mag + tracker.current_mag_error)
       /\ tracker.current_mag >= 100 /\ tracker.current_mag <= 950

\* after a revision, truth + error is above 9.5 and the estimate is 9.5
C12_Witness ==
    /\ tracker.present /\ tracker.enabled
    /\ call.op = "update" /\ call.result = TRUE
    /\ tracker.true_mag + tracker.current_mag_error > 950
    /\ tracker.current_mag = 950
    /\ tracker.true_depth + tracker.current_depth_error < 0
    /\ tracker.current_depth = 0

\* C13: a disabled tracker publishes the truth, is converged from the start,
\* and every update returns False, leaves revision_count at 0 and the
\* announcement flag down.
C13_DisabledTracker ==
    (tracker.present /\ ~tracker.enabled) =>
       /\ tracker.current_lat = tracker.true_lat
       /\ tracker.current_lon = tracker.true_lon
       /\ tracker.current_depth = tracker.true_depth
       /\ tracker.current_mag = tracker.true_mag
       /\ is_converged(tracker)
       /\ tracker.revision_count = 0
       /\ ~tracker.needs_correction_announcement
       /\ (call.op = "update" => call.result = FALSE)
       /\ \A n \in StationCounts : \A o \in tracker_update(tracker, n) :
             o.result = FALSE /\ o.t = tracker

\* a disabled tracker that was offered 50 stations
C13_Witness ==
    /\ tracker.present /\ ~tracker.enabled
    /\ call.op = "update" /\ call.n = 50 /\ call.result = FALSE

\* C14: every revision raises needs_correction_announcement; an update that
\* does not revise leaves it as it was; consume_correction_flag returns True
\* exactly when the flag was raised and leaves it down, so a second call
\* without a revision in between returns False.
C14_OneShotFlag ==
    [][ /\ (call'.op = "update" /\ call'.result = TRUE) =>
              tracker'.needs_correction_announcement
        /\ (call'.op = "update" /\ call'.result = FALSE) =>
              tracker'.needs_correction_announcement
                 = tracker.needs_correction_announcement
        /\ call'.op = "consume" =>
              /\ call'.result = tracker.needs_correction_announcement
              /\ ~tracker'.needs_correction_announcement
        /\ (call.op = "consume" /\ call'.op = "consume") =>
              call'.result = FALSE ]_vars

\* the flag of the second revision was consumed
C14_Witness ==
    /\ tracker.present /\ tracker.enabled
    /\ call.op = "consume" /\ call.result = TRUE
    /\ tracker.revision_count = 2
    /\ ~tracker.needs_correction_announcement

\* the decay rates (percent) update(n, _) may draw
C15_Rates(n) ==
    IF n >= 20 THEN 40..60
    ELSE IF n >= 10 THEN 30..50
    ELSE 20..40

\* C15: a revision that is not an overthrow multiplies the four errors by one
\* factor 1 - d, d in [0.4, 0.6] for n >= 20, [0.3, 0.5] for 10 <= n < 20,
\* [0.2, 0.4] otherwise; no error changes sign and each absolute value ends
\* between 0.4 and 0.8 times what it was (up to the grid's truncation).
C15_Decay ==
    [][ (UpdateStep /\ call'.result = TRUE /\ ~call'.overthrown) =>
          /\ \E d \in C15_Rates(call'.n) :
                /\ tracker'.current_lat_error
                      = MulDiv(tracker.current_lat_error, 100 - d, 100)
                /\ tracker'.current_lon_error
                      = MulDiv(tracker.current_lon_error, 100 - d, 100)
                /\ tracker'.current_depth_error
                      = MulDiv(tracker.current_depth_error, 100 - d, 100)
                /\ tracker'.current_mag_error
                      = MulDiv(tracker.current_mag_error, 100 - d, 100)
          /\ \A f \in {"current_lat_error", "current_lon_error",
                       "current_depth_error", "current_mag_error"} :
                /\ tracker'[f] * tracker[f] >= 0
                /\ 100 * Abs(tracker'[f]) <= 80 * Abs(tracker[f])
                /\ 100 * (Abs(tracker'[f]) + 1) > 40 * Abs(tracker[f]) ]_vars

\* a second revision made with 20 stations or more
C15_Witness ==
    /\ tracker.present /\ tracker.enabled
    /\ call.op = "update" /\ call.result = TRUE /\ ~call.overthrown
    /\ call.n >= 20
    /\ tracker.revision_count = 2
    /\ tracker.current_mag_error < 0
    /\ tracker.current_lon_error > 0

\* the test loop is over: the list is exhausted or the tracker converged
TestOver == scall.op = "test" /\ (scall.stopped \/ scall.i = Len(station_counts))

\* the counts at which the test's feed can revise
RevisionCounts == {3, 8, 13, 20, 30, 50}

\* C23 as stated: the feed makes revisions fire at 3, 8, 13, 20, 30 and 50,
\* at no other count, at most 6 in all, whatever the initial draws
C23_AllSixFire ==
    TestOver => /\ scall.fired = RevisionCounts
                /\ tracker.revision_count <= 6

\* C23 (amended): a revision fires at each of the counts 3, 8, 13, 20, 30,
\* 50 that is fed before the tracker has converged, and at no other count;
\* the revisions counted are those fired, at most 6.
C23_FiresUntilConverged ==
    scall.op = "test" =>
        /\ scall.fired = {station_counts[k] : k \in 1..scall.i} \cap RevisionCounts
        /\ tracker.revision_count = Cardinality(scall.fired)
        /\ tracker.revision_count <= 6
        /\ (scall.i > 0 /\ ~scall.stopped) => ~is_converged(tracker)

\* the feed stopped on convergence after the revisions at 3, 8, 13 and 20
C23_Witness ==
    /\ TestOver /\ scall.stopped
    /\ scall.fired = {3, 8, 13, 20}
    /\ call.op = "update" /\ call.n = 20 /\ call.result

\* C24: once the test's counts have been fed the tracker is converged,
\* whatever the initial draws and the decay rates drawn.
C24_ConvergedAfterFeed ==
    TestOver => is_converged(tracker)

(***************************************************************************)
(* Claims about the multi-source manager                                   *)
(***************************************************************************)
SourceIndex == 1..Len(mgr.sources)

\* the start source of the last recompute: start_source, or the first of the
\* sorted list when none was set
C4_StartId ==
    IF mgr.start_source = NoSource THEN mgr.sources[1].id ELSE mgr.start_source

C4_StartDist ==
    (CHOOSE s \in {mgr.sources[i] : i \in SourceIndex} : s.id = C4_StartId).distance_on_fault

\* C4: after recompute_activation_times the start source has activate_at = 0;
\* under 'forward' every other source with distance < d0 is 'never' and the
\* rest (dist - d0)/v; under 'backward' every other source with distance > d0
\* is 'never' and the rest (d0 - dist)/v; under 'both' every source has
\* |dist - d0|/v and none is 'never'; every defined activate_at is >= 0.
C4_ActivationTimes ==
    (mgr.present /\ mcall.op = "recompute" /\ mgr.sources # <<>>) =>
      \A i \in SourceIndex :
        LET s == mgr.sources[i]
            d == s.distance_on_fault
            d0 == C4_StartDist
            v == mgr.rupture_velocity
        IN /\ v > 0
           /\ s.id = C4_StartId => s.activate_at = <<0>>
           /\ (s.id # C4_StartId /\ mgr.direction = "forward") =>
                 IF d < d0 THEN s.activate_at = <<>>
                 ELSE s.activate_at = <<((d - d0) * 10) \div v>>
           /\ (s.id # C4_StartId /\ mgr.direction = "backward") =>
                 IF d > d0 THEN s.activate_at = <<>>
                 ELSE s.activate_at = <<((d0 - d) * 10) \div v>>
           /\ (s.id # C4_StartId /\ mgr.direction = "both") =>
                 s.activate_at = <<(Abs(d - d0) * 10) \div v>>
           /\ mgr.direction = "both" => s.activate_at # <<>>
           /\ s.activate_at # <<>> => s.activate_at[1] >= 0

\* 'both' from the middle source: one source before it and one after it, both
\* scheduled at a positive time
C4_Witness ==
    /\ mgr.present /\ mcall.op = "recompute" /\ Len(mgr.sources) = 3
    /\ mgr.direction = "both" /\ mgr.start_source = 2
    /\ \E i, j \in SourceIndex :
          /\ mgr.sources[i].distance_on_fault < C4_StartDist
          /\ mgr.sources[j].distance_on_fault > C4_StartDist
          /\ mgr.sources[i].activate_at # <<>> /\ mgr.sources[i].activate_at[1] > 0
          /\ mgr.sources[j].activate_at # <<>> /\ mgr.sources[j].activate_at[1] > 0

\* C5: after every update(dt) with dt >= 0 a source is active iff its
\* activate_at is defined and the scenario time has reached it (boundary
\* included).
C5_ActiveIffReached ==
    (mgr.present /\ mcall.op = "update" /\ mcall.dt >= 0) =>
      \A i \in SourceIndex :
        mgr.sources[i].active <=>
          ( /\ mgr.sources[i].activate_at # <<>>
            /\ mgr.time >= mgr.sources[i].activate_at[1] )

\* three sources along the fault, forward from the first: the first is
\* active, the second became active at its activation time, the third is
\* still waiting
C5_Witness ==
    /\ mgr.present /\ mcall.op = "update" /\ Len(mgr.sources) = 3
    /\ mgr.direction = "forward" /\ mgr.rupture_velocity = 25
    /\ mgr.sources[1].id = 1 /\ mgr.sources[1].activate_at = <<0>>
    /\ mgr.sources[1].active
    /\ mgr.sources[2].activate_at = <<(mgr.sources[2].distance_on_fault * 10) \div 25>>
    /\ mgr.sources[2].activate_at[1] > 0
    /\ mgr.sources[2].active
    /\ mgr.sources[3].activate_at = <<(mgr.sources[3].distance_on_fault * 10) \div 25>>
    /\ mgr.sources[3].activate_at[1] > mgr.time
    /\ ~mgr.sources[3].active

C16_Ids(srcs) == {srcs[i].id : i \in 1..Len(srcs)}

\* position of the source with this id in a list
C16_Pos(srcs, id) == CHOOSE i \in 1..Len(srcs) : srcs[i].id = id

\* the ordering part of C16: recompute_activation_times leaves the same
\* sources ordered by distance_on_fault ascending, equal distances in the
\* order they had before; with fewer than 2 vertices the distance is the
\* longitude
C16_Sorted ==
    [][ (mcall'.op = "recompute" /\ mgr.sources # <<>>) =>
          /\ Len(mgr'.sources) = Len(mgr.sources)
          /\ C16_Ids(mgr'.sources) = C16_Ids(mgr.sources)
          /\ \A i, j \in 1..Len(mgr'.sources) :
                i < j =>
                  /\ mgr'.sources[i].distance_on_fault
                        <= mgr'.sources[j].distance_on_fault
                  /\ mgr'.sources[i].distance_on_fault
                        = mgr'.sources[j].distance_on_fault =>
                       C16_Pos(mgr.sources, mgr'.sources[i].id)
                          < C16_Pos(mgr.sources, mgr'.sources[j].id)
          /\ Len(mgr.polyline) < 2 =>
                \A i \in 1..Len(mgr'.sources) :
                   mgr'.sources[i].distance_on_fault = mgr'.sources[i].lon ]_vars

\* the empty-list part of C16: with no sources recompute_activation_times
\* and update change nothing
C16_EmptyIsNoOp ==
    [][ (mgr.present /\ mgr.sources = <<>>
           /\ mcall'.op \in {"recompute", "update"}) => mgr' = mgr ]_vars

\* C16: after recompute_activation_times the list is sorted by
\* distance_on_fault ascending, ties in input order (by longitude when the
\* polyline has fewer than 2 vertices), and with an empty source list
\* recompute_activation_times and update are no-ops.
C16_SortAndNoOps == C16_Sorted /\ C16_EmptyIsNoOp

\* C17: a source that is active stays active after every later update(dt);
\* set_start_source and set_direction do not touch it either; a source whose
\* activate_at is 'never' is inactive after every update.
C17_ActivityMonotone ==
    [][ /\ mcall'.op \in {"update", "set_start_source", "set_direction"} =>
              /\ Len(mgr'.sources) = Len(mgr.sources)
              /\ \A i \in 1..Len(mgr.sources) :
                    mgr.sources[i].active => mgr'.sources[i].active
        /\ mcall'.op = "update" =>
              \A i \in 1..Len(mgr'.sources) :
                 mgr'.sources[i].activate_at = <<>> => ~mgr'.sources[i].active ]_vars

\* after a tick backwards the clock is below the activation time of a source
\* that is still active, and a source that never ruptures is inactive
C17_Witness ==
    /\ mgr.present /\ mcall.op = "update" /\ mcall.dt < 0
    /\ \E i, j \in 1..Len(mgr.sources) :
          /\ mgr.sources[i].active
          /\ mgr.sources[i].activate_at # <<>>
          /\ mgr.time < mgr.sources[i].activate_at[1]
          /\ mgr.sources[j].activate_at = <<>>
          /\ ~mgr.sources[j].active

StationIndex == 1..NumStations

TickStep == scall'.op = "tick"

WaveArrived(st) == st.p_wave_arrived \/ st.s_wave_arrived

\* C7: within one scenario, tracked single mode included, an arrival flag
\* that is true after a Station.update is true after every later
\* Station.update: p_wave_arrived and s_wave_arrived never flip back.
C7_ArrivalFlagsMonotone ==
    [][ TickStep =>
          \A i \in StationIndex :
             /\ stations[i].p_wave_arrived => stations'[i].p_wave_arrived
             /\ stations[i].s_wave_arrived => stations'[i].s_wave_arrived ]_vars

\* C8: after every Station.update intensity <= target_intensity; a station
\* still below its target has risen in that update with time_since_peak = 0;
\* a station that had reached its target, the target unchanged, stays on it
\* with time_since_peak grown by dt.
C8_RiseAndPlateau ==
    [][ TickStep =>
          \A i \in StationIndex :
             /\ stations'[i].intensity <= stations'[i].target_intensity
             /\ ( /\ WaveArrived(stations'[i])
                  /\ stations'[i].intensity < stations'[i].target_intensity ) =>
                   /\ stations'[i].intensity > stations[i].intensity
                   /\ stations'[i].time_since_peak = 0
             /\ ( /\ WaveArrived(stations'[i])
                  /\ stations[i].intensity = stations[i].target_intensity
                  /\ stations'[i].target_intensity = stations[i].target_intensity ) =>
                   /\ stations'[i].intensity = stations'[i].target_intensity
                   /\ stations'[i].time_since_peak
                         = stations[i].time_since_peak + scall'.dt ]_vars

\* a station that rose over several updates, reached a felt target and has
\* stayed on it for more than the last tick
C8_Witness ==
    /\ scall.op = "tick"
    /\ \E i \in StationIndex :
          /\ stations[i].s_wave_arrived
          /\ stations[i].target_intensity >= 300
          /\ stations[i].intensity = stations[i].target_intensity
          /\ stations[i].time_since_peak > scall.dt
          /\ Val(stations[i].p_arrival_time) + stations[i].time_since_peak < eq.time

\* C9: a station's max_intensity never decreases across Station.update
\* calls, and after an update in which a wave has arrived it is at least the
\* station's intensity.
C9_MaxIntensity ==
    [][ TickStep =>
          \A i \in StationIndex :
             /\ stations'[i].max_intensity >= stations[i].max_intensity
             /\ WaveArrived(stations'[i]) =>
                   stations'[i].max_intensity >= stations'[i].intensity ]_vars

\* a station whose intensity came down after a revision lowered its target:
\* the maximum keeps the earlier peak
C9_Witness ==
    /\ scall.op = "tick"
    /\ \E i \in StationIndex :
          /\ WaveArrived(stations[i])
          /\ stations[i].intensity > Untriggered
          /\ stations[i].max_intensity > stations[i].intensity

(***************************************************************************)
(* Claims about the single-mode driver                                     *)
(***************************************************************************)
\* C18: a pass in which the tracker revises writes the tracker's new
\* estimate into the earthquake's lat, lon, depth and magnitude and leaves
\* its clock where the pass's own update put it: not reset, not advanced
\* again.
C18_RevisionKeepsClock ==
    [][ (TickStep /\ scall'.revised) =>
          /\ eq'.lat = tracker'.current_lat
          /\ eq'.lon = tracker'.current_lon
          /\ eq'.depth = tracker'.current_depth
          /\ eq'.magnitude = tracker'.current_mag
          /\ eq'.time = eq.time + scall'.dt ]_vars

\* a revision that moved the source, its clock running on
C18_Witness ==
    /\ scall.op = "tick" /\ scall.revised
    /\ tracker.present /\ tracker.revision_count = 1
    /\ eq.lat = tracker.current_lat /\ eq.magnitude = tracker.current_mag
    /\ eq.lat # tracker.true_lat - 80
    /\ eq.time > 0

\* the levels the station set reports (StationManager.update's return value)
C20_Reported(sts) == UNION {get_intensity_level(sts[i]) : i \in 1..NumStations}

\* C20: a pass emits exactly the levels the stations report that are not in
\* the driver's triggered set and adds them to it, so no level is emitted
\* twice while the set stands; the set loses members only at a scenario's
\* start or reset.
C20_LevelsOnce ==
    [][ /\ TickStep =>
            /\ scall'.new_levels \cap drv.triggered_intensity_sounds = {}
            /\ scall'.new_levels =
                  C20_Reported(stations') \ drv.triggered_intensity_sounds
            /\ drv'.triggered_intensity_sounds =
                  drv.triggered_intensity_sounds \cup scall'.new_levels
        /\ ~(drv.triggered_intensity_sounds \subseteq drv'.triggered_intensity_sounds)
              => scall'.op \in {"start", "reset"} ]_vars

\* a pass in which one station reports a level emitted earlier, which is
\* held back, while another level is new and goes out
C20_Witness ==
    /\ scall.op = "tick"
    /\ scall.new_levels # {}
    /\ \E i \in 1..NumStations :
          /\ get_intensity_level(stations[i]) # {}
          /\ get_intensity_level(stations[i]) \cap scall.new_levels = {}
          /\ get_intensity_level(stations[i]) \subseteq drv.triggered_intensity_sounds

\* C19: within one scenario the final report fires once, at the first pass
\* at which the snapshot has stood unchanged for longer than exp(M) * 0.3 s.
\* Stated over steps: a scenario counts at most one report, and a pass that
\* reports belongs to a scenario that has itself run longer than the
\* threshold (the snapshot cannot have stood longer than the scenario).
C19_ReportOnce ==
    [][ TickStep =>
          /\ scall'.reports <= 1
          /\ scall'.final_report =>
                eq'.time > final_report_threshold(eq'.magnitude) ]_vars

\* the position of a step in a pass's record, 0 when the pass lacks it
C21_At(steps, name) ==
    IF \E i \in 1..Len(steps) : steps[i] = name
    THEN CHOOSE i \in 1..Len(steps) : steps[i] = name
    ELSE 0

C21_Events == {"intensity_level", "final_report", "correction"}

\* C21: a pass of a tracked single-source scenario advances the clock, then
\* updates the stations, then rebuilds the regions, then updates the
\* tracker, and emits each of its events (new intensity level, final
\* report, correction) only after that tracker update.
C21_EventsAfterTracker ==
    (scall.op = "tick" /\ C21_At(scall.steps, "tracker_update") > 0) =>
        /\ C21_At(scall.steps, "advance_time") = 1
        /\ C21_At(scall.steps, "station_update") = 2
        /\ C21_At(scall.steps, "region_rebuild") = 3
        /\ \A i \in 1..Len(scall.steps) :
              scall.steps[i] \in C21_Events =>
                 i > C21_At(scall.steps, "tracker_update")

\* after the R key: stations, region map, overall maximum, tracker and
\* emitted levels are as at construction
C22_ResetClears ==
    scall.op = "reset" =>
        /\ stations = InitialStations
        /\ \A r \in 1..Len(Regions) : drv.region_max_intensities[r] = None
        /\ drv.max_intensity = 0
        /\ ~tracker.present
        /\ ~eq.present
        /\ drv.triggered_intensity_sounds = {}

\* after the R key: the final-report state is as at construction
C22_ReportStateInitial ==
    scall.op = "reset" =>
        /\ drv.intensity_stable_time = Simulator.intensity_stable_time
        /\ drv.final_report_played = Simulator.final_report_played
        /\ drv.last_intensity_snapshot = Simulator.last_intensity_snapshot

\* C22: a reset from any reachable state puts every station back in its
\* initial state, empties the region max map, zeroes the overall maximum,
\* discards the tracker, empties the emitted-level set and returns the
\* final-report state (stable time, fired flag, last snapshot) to initial.
C22_FullReset == C22_ResetClears /\ C22_ReportStateInitial

(***************************************************************************)
(* Claims about a station's flags and range                                *)
(***************************************************************************)
\* C26: after every Station.update a station whose S wave has arrived has
\* its P wave arrived too.
C26_SImpliesP ==
    \A i \in StationIndex : stations[i].s_wave_arrived => stations[i].p_wave_arrived

\* one station under the S wave (and the P wave), another under the P wave
\* only
C26_Witness ==
    /\ scall.op = "tick"
    /\ \E i, j \in StationIndex :
          /\ stations[i].s_wave_arrived /\ stations[i].p_wave_arrived
          /\ stations[j].p_wave_arrived /\ ~stations[j].s_wave_arrived

\* C27: every station's intensity stays within -3 .. 7.5, weak sites whose
\* raw S peak is negative included.
C27_IntensityRange ==
    \A i \in StationIndex :
        /\ stations[i].intensity >= -300
        /\ stations[i].intensity <= 750

(***************************************************************************)
(* Claims about the station-to-region cache                                *)
(***************************************************************************)
\* the cache a point-in-polygon lookup of every station gives
C28_Lookup(sts) ==
    [i \in 1..Len(sts) |-> find_region_for_point(sts[i].lat, sts[i].lon)]

\* C28: the station-to-region cache is built exactly once, at the first
\* region rebuild, by point-in-polygon lookup for each station; no later
\* tick, revision or reset changes or rebuilds it.
C28_CacheBuiltOnce ==
    [][ /\ (drv.station_region_cache # None
            => drv'.station_region_cache = drv.station_region_cache)
        /\ (drv.station_region_cache = None /\ drv'.station_region_cache # None
            => /\ scall'.op = "tick"
               /\ Val(drv'.station_region_cache) = C28_Lookup(stations'))
        /\ (scall'.op = "tick" => drv'.station_region_cache # None) ]_vars

\* a reset of the second scenario with the cache of the first pass still
\* in place
C28_Witness ==
    /\ scall.op = "reset"
    /\ scall.scenario >= 1
    /\ drv.station_region_cache = Some(C28_Lookup(stations))
    /\ \E i, j \in StationIndex :
          Val(drv.station_region_cache)[i] # Val(drv.station_region_cache)[j]

(***************************************************************************)
(* Claims about the manager's intensity and its clock                      *)
(***************************************************************************)
\* the sites the two functions are compared at
C29_Sites == {StationSites[i] : i \in 1..NumStations}

\* with no active source both functions give (0, False)
C29_NoActiveSource ==
    (mgr.present /\ \A i \in 1..Len(mgr.sources) : ~mgr.sources[i].active)
    => \A site \in C29_Sites :
          /\ calc_intensity(mgr, site[1], site[2], 100) = <<0, FALSE>>
          /\ envelope_multi(mgr, site[1], site[2], 100) = <<0, FALSE>>

\* C29: in every manager state calc_intensity(lat, lon, amp) returns the
\* same pair as envelope_multi: the maximum over the active sources of the
\* single-source time-dependent envelope value, with that maximum's
\* S-dominance flag.
C29_SameAsEnvelope ==
    mgr.present
    => \A site \in C29_Sites :
          calc_intensity(mgr, site[1], site[2], 100)
             = envelope_multi(mgr, site[1], site[2], 100)

\* C30: a tick with negative dt is rejected: over every sequence of update
\* calls the manager's clock never decreases, and a tick with negative dt
\* leaves the manager's state unchanged.
C30_NegativeTickRejected ==
    [][ mcall'.op = "update"
        => /\ mgr'.time >= mgr.time
           /\ (mcall'.dt < 0 => mgr' = mgr) ]_vars

(***************************************************************************)
(* Claims about the creation of a multi-source scenario                    *)
(***************************************************************************)
\* the manager start_multi_simulation creates from a polyline, a rupture
\* velocity and a direction (main.py lines 416-417)
C31_Created(pl, v, d) == set_direction(MultiSourceManager(pl, v), d)

C31_Valid(pl, v, d) == v > 0 /\ d \in Directions /\ Len(pl) >= 2

\* C31: creating a multi-source scenario with a zero or negative rupture
\* velocity, an unknown direction or a polyline of fewer than 2 vertices is
\* rejected: no manager is produced, and no activation times are assigned
\* on a manager with such a polyline.
C31_InvalidConfigRejected ==
    /\ \A pl \in Polylines, v \in RuptureVelocities,
          d \in Directions \cup {"sideways"} :
          ~C31_Valid(pl, v, d) => ~C31_Created(pl, v, d).present
    /\ mgr.present => Len(mgr.polyline) >= 2
    /\ ~(/\ mgr.present /\ mcall.op = "recompute"
         /\ Len(mgr.polyline) < 2 /\ mgr.sources # <<>>)

(***************************************************************************)
(* Claims about Station.update                                             *)
(***************************************************************************)
\* C32: a Station.update made while neither wave has arrived sets
\* target_intensity = -3 and intensity = -3, skips growth, and leaves
\* max_intensity, time_since_peak, p_arrival_time and p_amplitude unchanged.
C32_BeforeArrival ==
    [][ TickStep =>
          \A i \in StationIndex :
             ~WaveArrived(stations'[i]) =>
                /\ stations'[i].target_intensity = Untriggered
                /\ stations'[i].intensity = Untriggered
                /\ stations'[i].max_intensity = stations[i].max_intensity
                /\ stations'[i].time_since_peak = stations[i].time_since_peak
                /\ stations'[i].p_arrival_time = stations[i].p_arrival_time
                /\ stations'[i].p_amplitude = stations[i].p_amplitude ]_vars

\* a pass that left a station without either wave: one that no wave has
\* reached yet next to one that had detected the P wave before
C32_Witness ==
    /\ scall.op = "tick"
    /\ \E i, j \in StationIndex :
          /\ ~WaveArrived(stations[i]) /\ stations[i].p_arrival_time = None
          /\ ~WaveArrived(stations[j]) /\ stations[j].p_arrival_time # None
          /\ stations[j].max_intensity > Untriggered

\* C33: for a station whose wave has arrived and whose target stays at T,
\* with passes of constant dt > 0 and any random draws, each pass raises
\* the intensity by at least 0.5 * dt until it would reach T; the intensity
\* is T after at most ceil((T - I0) / (0.5 * dt)) passes from I0 and never
\* exceeds T.
C33_BoundedGrowth ==
    (scall.op = "tick" /\ WaveArrived(stations[1])) =>
       LET T == stations[1].target_intensity
           floor == 5 * scall.dt
       IN /\ stations[1].intensity <= T
          /\ \/ stations[1].intensity = T
             \/ stations[1].intensity >= scall.prev + floor
          /\ scall.ticks * floor >= T - scall.start
                => stations[1].intensity = T

\* the pass on which the bound is met, the target reached only then
C33_Witness ==
    /\ scall.op = "tick" /\ WaveArrived(stations[1])
    /\ stations[1].intensity = stations[1].target_intensity
    /\ scall.prev < stations[1].target_intensity
    /\ scall.ticks > 3
    /\ stations[1].target_intensity > 500

\* C34: p_arrival_time is set on the false-to-true transition of
\* p_wave_arrived to the current scenario time, and once set it is not
\* changed again until reset, passes that follow revisions included.
C34_FirstDetectionKept ==
    [][ TickStep =>
          \A i \in StationIndex :
             /\ (~stations[i].p_wave_arrived /\ stations'[i].p_wave_arrived
                    => stations'[i].p_arrival_time = Some(eq'.time))
             /\ (stations[i].p_arrival_time # None
                    => stations'[i].p_arrival_time = stations[i].p_arrival_time)
       ]_vars

\* the site-corrected S peak of station i for the source of the pass
C35_Peak(e, i) ==
    calc_jma_intensity(e.magnitude, e.depth,
                       get_epicentral_distance(e, StationSites[i][1],
                                               StationSites[i][2]),
                       bai_from_amp(StationAmps[i]))

\* C35: after a Station.update in which S has arrived, target_intensity is
\* the S peak with the station's own site factor bai = (amp*4 + amp^2)/5
\* applied; with only P arrived it is that same peak / 1.5 - 0.5.
C35_TargetUsesSiteFactor ==
    [][ (TickStep /\ ~scall'.revised) =>
          \A i \in StationIndex :
             /\ (stations'[i].s_wave_arrived
                   => stations'[i].target_intensity = C35_Peak(eq', i))
             /\ (stations'[i].p_wave_arrived /\ ~stations'[i].s_wave_arrived
                   => stations'[i].target_intensity
                         = MulDiv(C35_Peak(eq', i), 100, 150) - 50) ]_vars

(***************************************************************************)
(* Claims about the count fed to the tracker and the region maxima         *)
(***************************************************************************)
\* C36: in single mode the station count fed to the tracker in a pass is
\* the number of stations whose current observed (progressively grown)
\* intensity is >= 3 at the end of that pass's station update.
C36_CountOfObserved ==
    (scall.op = "tick" /\ call.op = "update") =>
       call.n = Cardinality({i \in StationIndex : stations[i].intensity >= 300})

C37_Max(S) == CHOOSE v \in S : \A w \in S : w <= v

\* the stations the rebuild counts for region r: cached to r, at 0.5 or more
C37_Counted(r) ==
    {i \in StationIndex : /\ stations[i].intensity >= 50
                          /\ Val(drv.station_region_cache)[i] = Regions[r][1]}

\* region_max[code] is the maximum over the stations counted for the region,
\* a region without such a station being absent
C37_RegionMax ==
    scall.op = "tick" =>
       \A r \in 1..Len(Regions) :
          drv.region_max_intensities[r] =
             IF C37_Counted(r) = {} THEN None
             ELSE Some(C37_Max({stations[i].intensity : i \in C37_Counted(r)}))

\* overall_max is the maximum of the region_max values, and the region
\* named holds it
C37_OverallMax ==
    scall.op = "tick" =>
       LET present == {r \in 1..Len(Regions) : drv.region_max_intensities[r] # None}
       IN /\ drv.max_intensity =
                IF present = {} THEN 0
                ELSE C37_Max({Val(drv.region_max_intensities[r]) : r \in present})
          /\ present # {} =>
                \E r \in present :
                   /\ Regions[r][1] = drv.max_intensity_location
                   /\ Val(drv.region_max_intensities[r]) = drv.max_intensity

\* C37: after every pass's region rebuild, region_max[code] is the maximum
\* current intensity over the stations cached to that region (stations
\* below 0.5 ignored, regions without such a station absent), overall_max
\* is the maximum of the region_max values, and the region named is one
\* whose region_max equals overall_max.
C37_RegionMaxima == C37_RegionMax /\ C37_OverallMax

(***************************************************************************)
(* Claims about the tracker's frame and its overthrow branch               *)
(***************************************************************************)
\* C38: an EEWTracker.update that returns False (disabled, converged,
\* n < 3, or increase below 5 after the first revision) leaves the tracker
\* unchanged: estimate, the four errors, revision_count, the recorded
\* station count and the correction-announcement flag.
C38_FalseLeavesTracker ==
    [][ (UpdateStep /\ ~call'.result) => tracker' = tracker ]_vars

\* an update refused after the first revision, the announcement of that
\* revision still pending
C38_Witness ==
    /\ call.op = "update" /\ ~call.result
    /\ tracker.enabled /\ ~is_converged(tracker)
    /\ tracker.revision_count >= 1
    /\ call.n >= 3 /\ call.n # tracker.last_detected_station_count
    /\ tracker.needs_correction_announcement

\* C39: for a tracker created through its constructor the overthrow branch
\* is unreachable: in every reachable state |mag_err| <= 1.0 and
\* |depth_err| <= 30, and no revision re-draws the errors.
C39_NoOverthrow ==
    tracker.present =>
       /\ Abs(tracker.current_mag_error) <= overthrow_mag_threshold
       /\ Abs(tracker.current_depth_error) <= overthrow_depth_threshold
       /\ ~is_overthrow(tracker)
       /\ (call.op = "update" => ~call.overthrown)

\* the first revision of a tracker constructed with the largest depth and
\* magnitude draws (-30 km, -0.8): a normal revision, both errors shrunk
C39_Witness ==
    /\ call.op = "update" /\ call.result /\ ~call.overthrown
    /\ tracker.revision_count = 1
    /\ tracker.current_depth_error \in {decay(-300, r) : r \in decay_rates(call.n)}
    /\ tracker.current_mag_error \in {decay(-80, r) : r \in decay_rates(call.n)}

(***************************************************************************)
(* Claims about the two arrival tests                                      *)
(***************************************************************************)
\* C40: for every source state and site the radius test (d_epi <= surface
\* wave radius, the radius 0 while v * t <= depth) holds exactly when the
\* arrival-time test (t >= sqrt(d_epi^2 + depth^2) / v) holds; a site at
\* d_epi = 0 above a source of depth > 0 gets no intensity before
\* t = depth / v.
C40_TestsAgree ==
    eq.present =>
       \A i \in StationIndex : \A speed \in {PWaveSpeed, SWaveSpeed} :
          within_radius(eq, StationSites[i][1], StationSites[i][2], speed)
             <=> arrived(eq, StationSites[i][1], StationSites[i][2],
                         eq.time, speed)

====
